---- MODULE Spec2Model ----
(***************************************************************************)
(* The AI-enhanced SQL command line (component AICommandLine): its line    *)
(* buffer, statement completeness rule, translate / correct / classify     *)
(* pipeline, yes/no confirmation of destructive statements, command        *)
(* dispatcher, transcript and recall history.                              *)
(*                                                                         *)
(* Text is a sequence of one-character strings, so that trim, lower-casing,*)
(* joining and the regular expressions of the rule tables are computed,    *)
(* character by character, as the JavaScript does.                         *)
(***************************************************************************)
EXTENDS Integers, Sequences, FiniteSets, TLC

(***************************************************************************)
(* Characters                                                              *)
(***************************************************************************)
UpperAZ == <<"A","B","C","D","E","F","G","H","I","J","K","L","M",
             "N","O","P","Q","R","S","T","U","V","W","X","Y","Z">>
LowerAZ == <<"a","b","c","d","e","f","g","h","i","j","k","l","m",
             "n","o","p","q","r","s","t","u","v","w","x","y","z">>
Digits == {"0","1","2","3","4","5","6","7","8","9"}

UpperSet == {UpperAZ[i] : i \in 1..26}
LowerSet == {LowerAZ[i] : i \in 1..26}

\* String.prototype.toLowerCase / toUpperCase on one character.
LowerOf == [c \in UpperSet |-> LowerAZ[CHOOSE i \in 1..26 : UpperAZ[i] = c]]
UpperOf == [c \in LowerSet |-> UpperAZ[CHOOSE i \in 1..26 : LowerAZ[i] = c]]
LowerCh(c) == IF c \in UpperSet THEN LowerOf[c] ELSE c
UpperCh(c) == IF c \in LowerSet THEN UpperOf[c] ELSE c

\* \s and \w of a JavaScript regular expression without the u flag.
IsSpace(c) == c \in {" ", "\n", "\t", "\r"}
IsWord(c) == c \in UpperSet \/ c \in LowerSet \/ c \in Digits \/ c = "_"

(***************************************************************************)
(* Strings                                                                 *)
(***************************************************************************)
Min(S) == CHOOSE x \in S : \A y \in S : x <= y
Max(S) == CHOOSE x \in S : \A y \in S : x >= y

toLowerCase(s) == SubSeq([i \in 1..Len(s) |-> LowerCh(s[i])], 1, Len(s))
toUpperCase(s) == SubSeq([i \in 1..Len(s) |-> UpperCh(s[i])], 1, Len(s))

\* String.prototype.trim
trim(s) ==
  LET black == {i \in 1..Len(s) : ~IsSpace(s[i])}
  IN IF black = {} THEN <<>> ELSE SubSeq(s, Min(black), Max(black))

startsWith(s, p) == Len(s) >= Len(p) /\ SubSeq(s, 1, Len(p)) = p
endsWith(s, p) == Len(s) >= Len(p) /\ SubSeq(s, Len(s) - Len(p) + 1, Len(s)) = p
includes(s, p) == \E i \in 1..(Len(s) - Len(p) + 1) : SubSeq(s, i, i + Len(p) - 1) = p

\* Array.prototype.join with the separator "\n"
RECURSIVE joinLines(_)
joinLines(ls) ==
  IF ls = <<>> THEN <<>>
  ELSE IF Len(ls) = 1 THEN ls[1]
  ELSE ls[1] \o <<"\n">> \o joinLines(Tail(ls))

\* The replacement text of String.prototype.replace for a string pattern: in it
\* $$ stands for $, $& for the matched text, $` for the text before the match
\* and $' for the text after it; $ before anything else is itself.
RECURSIVE expandFrom(_, _, _, _, _)
expandFrom(by, j, matched, before, after) ==
  IF j > Len(by) THEN <<>>
  ELSE IF by[j] = "$" /\ j < Len(by) /\ by[j + 1] \in {"$", "&", "`", "'"}
  THEN (CASE by[j + 1] = "$" -> <<"$">>
          [] by[j + 1] = "&" -> matched
          [] by[j + 1] = "`" -> before
          [] by[j + 1] = "'" -> after) \o expandFrom(by, j + 2, matched, before, after)
  ELSE <<by[j]>> \o expandFrom(by, j + 1, matched, before, after)

\* String.prototype.replace(pattern: string, by): the first occurrence only.
replaceFirst(s, p, by) ==
  LET at == {k \in 1..(Len(s) - Len(p) + 1) : SubSeq(s, k, k + Len(p) - 1) = p}
  IN IF at = {} THEN s
     ELSE SubSeq(s, 1, Min(at) - 1)
          \o expandFrom(by, 1, p, SubSeq(s, 1, Min(at) - 1), SubSeq(s, Min(at) + Len(p), Len(s)))
          \o SubSeq(s, Min(at) + Len(p), Len(s))

(***************************************************************************)
(* Regular expressions (every one of the component's carries the i flag).  *)
(* An expression is a sequence of items: literal text, a character class,  *)
(* a greedy or lazy repetition of a character class, an optional or an     *)
(* alternative of sub-expressions, a capture group, a negative lookahead,  *)
(* ^ and $.  MatchSeq is the backtracking matcher: the first way, in the   *)
(* matcher's order of trying, in which items k.. match s from position i.  *)
(***************************************************************************)
Lit(w) == <<[t |-> "lit", w |-> w]>>               \* text
Ch(c) == <<[t |-> "lit", w |-> <<c>>]>>            \* one character
Ws == <<[t |-> "space"]>>                          \* \s
Wd == <<[t |-> "word"]>>                           \* \w
Dot == <<[t |-> "dot"]>>                           \* .
NotCh(c) == <<[t |-> "notch", c |-> c]>>           \* [^c]
Dg == <<[t |-> "digit"]>>                          \* \d
Plus(cls) == <<[t |-> "rep", cls |-> cls[1], min |-> 1, greedy |-> TRUE]>>      \* cls+
Star(cls) == <<[t |-> "rep", cls |-> cls[1], min |-> 0, greedy |-> TRUE]>>      \* cls*
LazyPlus(cls) == <<[t |-> "rep", cls |-> cls[1], min |-> 1, greedy |-> FALSE]>> \* cls+?
LazyStar(cls) == <<[t |-> "rep", cls |-> cls[1], min |-> 0, greedy |-> FALSE]>> \* cls*?
RECURSIVE Cat(_)
Cat(rss) == IF rss = <<>> THEN <<>> ELSE Head(rss) \o Cat(Tail(rss))  \* one after another
Opt(rs) == <<[t |-> "opt", rs |-> rs]>>            \* (?:rs)?
Alt(rss) == <<[t |-> "alt", rss |-> rss]>>         \* (?:rs1|rs2|...)
Grp(n, rs) == <<[t |-> "open", n |-> n]>> \o rs \o <<[t |-> "close", n |-> n]>>  \* (rs)
NotAhead(rs) == <<[t |-> "notahead", rs |-> rs]>>  \* (?!rs)
Bol == <<[t |-> "bol"]>>                           \* ^
Eol == <<[t |-> "eol"]>>                           \* $

NoGroups == <<<<0, 0>>, <<0, 0>>, <<0, 0>>>>

InClass(cls, c) ==
  CASE cls.t = "space" -> IsSpace(c)
    [] cls.t = "word" -> IsWord(c)
    [] cls.t = "dot" -> c \notin {"\n", "\r"}
    [] cls.t = "notch" -> LowerCh(c) # LowerCh(cls.c)
    [] cls.t = "digit" -> c \in Digits

\* how many characters of s from position i on are in the class
RunLength(cls, s, i) ==
  LET stops == {j \in i..Len(s) : ~InClass(cls, s[j])}
  IN IF stops = {} THEN Len(s) - i + 1 ELSE Min(stops) - i

rest(rs, k) == SubSeq(rs, k + 1, Len(rs))

RECURSIVE MatchSeq(_, _, _, _, _)
RECURSIVE MatchAlt(_, _, _, _, _, _)
\* the alternatives j.. of an alternative, each followed by the items after it
MatchAlt(rss, j, after, s, i, g) ==
  IF j > Len(rss) THEN <<>>
  ELSE LET m == MatchSeq(rss[j] \o after, 1, s, i, g)
       IN IF m # <<>> THEN m ELSE MatchAlt(rss, j + 1, after, s, i, g)

MatchSeq(rs, k, s, i, g) ==
  IF k > Len(rs) THEN <<[e |-> i, g |-> g]>>
  ELSE LET r == rs[k]
       IN CASE r.t = "lit" ->
                 IF /\ i + Len(r.w) - 1 <= Len(s)
                    /\ \A n \in 1..Len(r.w) : LowerCh(s[i + n - 1]) = LowerCh(r.w[n])
                 THEN MatchSeq(rs, k + 1, s, i + Len(r.w), g) ELSE <<>>
            [] r.t \in {"space", "word", "dot", "notch", "digit"} ->
                 IF i <= Len(s) /\ InClass(r, s[i])
                 THEN MatchSeq(rs, k + 1, s, i + 1, g) ELSE <<>>
            [] r.t = "rep" ->
                 LET ends == {j \in (i + r.min)..(i + RunLength(r.cls, s, i)) :
                                MatchSeq(rs, k + 1, s, j, g) # <<>>}
                 IN IF ends = {} THEN <<>>
                    ELSE MatchSeq(rs, k + 1, s, IF r.greedy THEN Max(ends) ELSE Min(ends), g)
            [] r.t = "opt" ->
                 LET with == MatchSeq(r.rs \o rest(rs, k), 1, s, i, g)
                 IN IF with # <<>> THEN with ELSE MatchSeq(rs, k + 1, s, i, g)
            [] r.t = "alt" -> MatchAlt(r.rss, 1, rest(rs, k), s, i, g)
            [] r.t = "open" -> MatchSeq(rs, k + 1, s, i, [g EXCEPT ![r.n] = <<i, i>>])
            [] r.t = "close" -> MatchSeq(rs, k + 1, s, i, [g EXCEPT ![r.n][2] = i])
            [] r.t = "notahead" ->
                 IF MatchSeq(r.rs, 1, s, i, g) = <<>>
                 THEN MatchSeq(rs, k + 1, s, i, g) ELSE <<>>
            [] r.t = "bol" -> IF i = 1 THEN MatchSeq(rs, k + 1, s, i, g) ELSE <<>>
            [] r.t = "eol" -> IF i = Len(s) + 1 THEN MatchSeq(rs, k + 1, s, i, g) ELSE <<>>

\* Whether a match of rs can begin at position i of s, by what rs begins with:
\* literal text, ^, or anything else.
CanStart(rs, s, i) ==
  CASE rs[1].t = "lit" -> i <= Len(s) /\ LowerCh(s[i]) = LowerCh(rs[1].w[1])
    [] rs[1].t = "bol" -> i = 1
    [] OTHER -> TRUE

MatchesAt(rs, s, i) == CanStart(rs, s, i) /\ MatchSeq(rs, 1, s, i, NoGroups) # <<>>

\* RegExp.prototype.test for an expression without the g flag (or with lastIndex 0)
RegTest(rs, s) == \E i \in 1..(Len(s) + 1) : MatchesAt(rs, s, i)

\* String.prototype.match for an expression without the g flag: the leftmost
\* match at or after from; group k is SubSeq(s, g[k][1], g[k][2] - 1).
RegExec(rs, s, from) ==
  LET starts == {i \in from..(Len(s) + 1) : MatchesAt(rs, s, i)}
  IN IF starts = {} THEN [found |-> FALSE]
     ELSE LET m == MatchSeq(rs, 1, s, Min(starts), NoGroups)[1]
          IN [found |-> TRUE, start |-> Min(starts), e |-> m.e, g |-> m.g]

GroupText(s, m, k) == SubSeq(s, m.g[k][1], m.g[k][2] - 1)

\* String.prototype.replace for an expression with the g flag that matches no
\* empty text, and a replacement that holds no $-pattern: every match, left to
\* right, none overlapping.
RECURSIVE RegReplaceFrom(_, _, _, _)
RegReplaceFrom(rs, s, by, from) ==
  LET m == RegExec(rs, s, from)
  IN IF ~m.found THEN SubSeq(s, from, Len(s))
     ELSE SubSeq(s, from, m.start - 1) \o by \o RegReplaceFrom(rs, s, by, m.e)
RegReplaceAll(rs, s, by) == RegReplaceFrom(rs, s, by, 1)

(***************************************************************************)
(* Rule tables.  The messages are given without their pictographs, and in  *)
(* them U+0111, U+0103 and U+0128 are written d, a and I; in the patterns  *)
(* and in typed text the characters U+0111 and U+0103 are the one-         *)
(* character strings "U+0111" and "U+0103".                                *)
(***************************************************************************)
\* /^DROP\s+TABLE\s+/i ... /^UPDATE\s+\w+\s+SET\s+[^W]*$/i
dangerousCommands == <<
  [pattern |-> Cat(<<Bol, Lit(<<"D","R","O","P">>), Plus(Ws), Lit(<<"T","A","B","L","E">>), Plus(Ws)>>),
   warning |-> <<"NGUY HIỂM: Lệnh này sẽ XÓA VINH VIỄN bảng và tất cả dữ liệu!">>, level |-> "high"],
  [pattern |-> Cat(<<Bol, Lit(<<"D","R","O","P">>), Plus(Ws), Lit(<<"D","A","T","A","B","A","S","E">>), Plus(Ws)>>),
   warning |-> <<"CỰC KỲ NGUY HIỂM: Lệnh này sẽ XÓA TOÀN BỘ DATABASE!">>, level |-> "high"],
  [pattern |-> Cat(<<Bol, Lit(<<"D","E","L","E","T","E">>), Plus(Ws), Lit(<<"F","R","O","M">>), Plus(Ws), Plus(Wd), Star(Ws), Opt(Ch(";")), Star(Ws), Eol>>),
   warning |-> <<"CẢNH BÁO: DELETE không có WHERE sẽ xóa TẤT CẢ dữ liệu!">>, level |-> "high"],
  [pattern |-> Cat(<<Bol, Lit(<<"T","R","U","N","C","A","T","E">>), Plus(Ws)>>),
   warning |-> <<"CẢNH BÁO: TRUNCATE sẽ xóa toàn bộ dữ liệu trong bảng!">>, level |-> "high"],
  [pattern |-> Cat(<<Bol, Lit(<<"U","P","D","A","T","E">>), Plus(Ws), Plus(Wd), Plus(Ws), Lit(<<"S","E","T">>), Plus(Ws), Star(NotCh("W")), Eol>>),
   warning |-> <<"CẢNH BÁO: UPDATE không có WHERE sẽ cập nhật TẤT CẢ hàng!">>, level |-> "medium"]
>>

\* /lấy\s+tất\s+cả\s+(?:từ\s+)?(?:bảng\s+)?(\w+)/i ... ; groups is the number of
\* capture groups of the pattern (match.length - 1)
vietnameseToSQL == <<
  [pattern |-> Cat(<<Lit(<<"l","ấ","y">>), Plus(Ws), Lit(<<"t","ấ","t">>), Plus(Ws), Lit(<<"c","ả">>), Plus(Ws), Opt(Cat(<<Lit(<<"t","ừ">>), Plus(Ws)>>)), Opt(Cat(<<Lit(<<"b","ả","n","g">>), Plus(Ws)>>)), Grp(1, Plus(Wd))>>),
   groups |-> 1,
   template |-> <<"S","E","L","E","C","T"," ","*"," ","F","R","O","M"," ","$","1">>],
  [pattern |-> Cat(<<Lit(<<"U+0111","ế","m">>), Plus(Ws), Opt(Cat(<<Lit(<<"s","ố">>), Plus(Ws)>>)), Opt(Cat(<<Lit(<<"l","ư","ợ","n","g">>), Plus(Ws)>>)), Opt(Cat(<<Lit(<<"t","r","o","n","g">>), Plus(Ws)>>)), Opt(Cat(<<Lit(<<"b","ả","n","g">>), Plus(Ws)>>)), Grp(1, Plus(Wd))>>),
   groups |-> 1,
   template |-> <<"S","E","L","E","C","T"," ","C","O","U","N","T","(","*",")"," ","F","R","O","M"," ","$","1">>],
  [pattern |-> Cat(<<Lit(<<"x","e","m">>), Plus(Ws), Opt(Cat(<<Lit(<<"b","ả","n","g">>), Plus(Ws)>>)), Grp(1, Plus(Wd))>>),
   groups |-> 1,
   template |-> <<"S","E","L","E","C","T"," ","*"," ","F","R","O","M"," ","$","1">>],
  [pattern |-> Cat(<<Lit(<<"h","i","ể","n">>), Plus(Ws), Lit(<<"t","h","ị">>), Plus(Ws), Opt(Cat(<<Lit(<<"t","ấ","t">>), Plus(Ws), Lit(<<"c","ả">>), Plus(Ws)>>)), Opt(Cat(<<Lit(<<"b","ả","n","g">>), Plus(Ws)>>)), Grp(1, Plus(Wd))>>),
   groups |-> 1,
   template |-> <<"S","E","L","E","C","T"," ","*"," ","F","R","O","M"," ","$","1">>],
  [pattern |-> Cat(<<Lit(<<"t","ì","m">>), Plus(Ws), Grp(1, Plus(Dot)), Plus(Ws), Lit(<<"t","r","o","n","g">>), Plus(Ws), Grp(2, Plus(Wd)), Plus(Ws), Alt(<<Lit(<<"v","ớ","i">>), Lit(<<"c","ó">>), Lit(<<"w","h","e","r","e">>)>>), Plus(Ws), Grp(3, Plus(Dot))>>),
   groups |-> 3,
   template |-> <<"S","E","L","E","C","T"," ","$","1"," ","F","R","O","M"," ","$","2"," ","W","H","E","R","E"," ","$","3">>],
  [pattern |-> Cat(<<Lit(<<"s","ắ","p">>), Plus(Ws), Lit(<<"x","ế","p">>), Plus(Ws), Grp(1, Plus(Wd)), Plus(Ws), Lit(<<"t","h","e","o">>), Plus(Ws), Grp(2, Plus(Wd)), Plus(Ws), Alt(<<Lit(<<"t","U+0103","n","g">>), Cat(<<Lit(<<"t","U+0103","n","g">>), Plus(Ws), Lit(<<"d","ầ","n">>)>>)>>)>>),
   groups |-> 2,
   template |-> <<"S","E","L","E","C","T"," ","*"," ","F","R","O","M"," ","$","1"," ","O","R","D","E","R"," ","B","Y"," ","$","2"," ","A","S","C">>],
  [pattern |-> Cat(<<Lit(<<"s","ắ","p">>), Plus(Ws), Lit(<<"x","ế","p">>), Plus(Ws), Grp(1, Plus(Wd)), Plus(Ws), Lit(<<"t","h","e","o">>), Plus(Ws), Grp(2, Plus(Wd)), Plus(Ws), Alt(<<Lit(<<"g","i","ả","m">>), Cat(<<Lit(<<"g","i","ả","m">>), Plus(Ws), Lit(<<"d","ầ","n">>)>>)>>)>>),
   groups |-> 2,
   template |-> <<"S","E","L","E","C","T"," ","*"," ","F","R","O","M"," ","$","1"," ","O","R","D","E","R"," ","B","Y"," ","$","2"," ","D","E","S","C">>],
  [pattern |-> Cat(<<Lit(<<"t","h","ê","m">>), Plus(Ws), Grp(1, Plus(Dot)), Plus(Ws), Lit(<<"v","à","o">>), Plus(Ws), Grp(2, Plus(Wd))>>),
   groups |-> 2,
   template |-> <<"I","N","S","E","R","T"," ","I","N","T","O"," ","$","2"," ","V","A","L","U","E","S"," ","(","$","1",")">>],
  [pattern |-> Cat(<<Lit(<<"x","ó","a">>), Plus(Ws), Opt(Cat(<<Lit(<<"t","ừ">>), Plus(Ws)>>)), Grp(1, Plus(Wd)), Plus(Ws), Alt(<<Lit(<<"v","ớ","i">>), Lit(<<"c","ó">>), Lit(<<"w","h","e","r","e">>)>>), Plus(Ws), Grp(2, Plus(Dot))>>),
   groups |-> 2,
   template |-> <<"D","E","L","E","T","E"," ","F","R","O","M"," ","$","1"," ","W","H","E","R","E"," ","$","2">>]
>>

\* /SLECT/gi ... /JION/gi
sqlCorrections == <<
  [pattern |-> Lit(<<"S","L","E","C","T">>),
   fix |-> <<"S","E","L","E","C","T">>, message |-> <<"Sửa lỗi: SLECT → SELECT">>],
  [pattern |-> Lit(<<"F","O","R","M">>),
   fix |-> <<"F","R","O","M">>, message |-> <<"Sửa lỗi: FORM → FROM">>],
  [pattern |-> Cat(<<Lit(<<"W","H","E","R">>), NotAhead(Ch("E"))>>),
   fix |-> <<"W","H","E","R","E">>, message |-> <<"Sửa lỗi: WHER → WHERE">>],
  [pattern |-> Cat(<<Lit(<<"O","D","E","R">>), Plus(Ws), Lit(<<"B","Y">>)>>),
   fix |-> <<"O","R","D","E","R"," ","B","Y">>, message |-> <<"Sửa lỗi: ODER BY → ORDER BY">>],
  [pattern |-> Cat(<<Lit(<<"G","R","U","O","P">>), Plus(Ws), Lit(<<"B","Y">>)>>),
   fix |-> <<"G","R","O","U","P"," ","B","Y">>, message |-> <<"Sửa lỗi: GRUOP BY → GROUP BY">>],
  [pattern |-> Lit(<<"D","E","L","T","E">>),
   fix |-> <<"D","E","L","E","T","E">>, message |-> <<"Sửa lỗi: DELTE → DELETE">>],
  [pattern |-> Lit(<<"U","D","P","A","T","E">>),
   fix |-> <<"U","P","D","A","T","E">>, message |-> <<"Sửa lỗi: UDPATE → UPDATE">>],
  [pattern |-> Lit(<<"I","N","S","E","T">>),
   fix |-> <<"I","N","S","E","R","T">>, message |-> <<"Sửa lỗi: INSET → INSERT">>],
  [pattern |-> Lit(<<"V","A","L","E","U","S">>),
   fix |-> <<"V","A","L","U","E","S">>, message |-> <<"Sửa lỗi: VALEUS → VALUES">>],
  [pattern |-> Lit(<<"J","I","O","N">>),
   fix |-> <<"J","O","I","N">>, message |-> <<"Sửa lỗi: JION → JOIN">>]
>>

specialCommands == <<
  <<"h","e","l","p">>,
  <<"c","l","e","a","r">>,
  <<"r","e","s","e","t">>,
  <<"t","a","b","l","e","s">>,
  <<"y","e","s">>,
  <<"n","o">>,
  <<"y">>,
  <<"n">>,
  <<"a","i"," ","o","n">>,
  <<"a","i"," ","o","f","f">>,
  <<"l","e","a","r","n"," ","o","n">>,
  <<"l","e","a","r","n"," ","o","f","f">>>>


(***************************************************************************)
(* The pure functions of the pipeline                                      *)
(***************************************************************************)
InSeq(x, xs) == \E k \in 1..Len(xs) : xs[k] = x

\* isCommandComplete looking for the ; at the end of the text as typed
isCommandCompleteUntrimmed(text) ==
  LET lowerTrimmed == toLowerCase(trim(text))
  IN \/ InSeq(lowerTrimmed, specialCommands)
     \/ startsWith(lowerTrimmed, <<"d","e","s","c"," ">>)
     \/ startsWith(lowerTrimmed, <<"d","e","s","c","r","i","b","e"," ">>)
     \/ \E k \in 1..Len(vietnameseToSQL) : RegTest(vietnameseToSQL[k].pattern, trim(text))
     \/ endsWith(text, <<";">>)

\* isCommandComplete without the test of the translation rules
isCommandCompleteTerminated(text) ==
  LET trimmed == trim(text)
      lowerTrimmed == toLowerCase(trimmed)
  IN \/ InSeq(lowerTrimmed, specialCommands)
     \/ startsWith(lowerTrimmed, <<"d","e","s","c"," ">>)
     \/ startsWith(lowerTrimmed, <<"d","e","s","c","r","i","b","e"," ">>)
     \/ endsWith(trimmed, <<";">>)

\* Check if command is complete (ends with ;)
isCommandComplete(text) ==
  LET trimmed == trim(text)
      lowerTrimmed == toLowerCase(trimmed)
  IN \/ InSeq(lowerTrimmed, specialCommands)
     \/ startsWith(lowerTrimmed, <<"d","e","s","c"," ">>)
     \/ startsWith(lowerTrimmed, <<"d","e","s","c","r","i","b","e"," ">>)
     \/ \E k \in 1..Len(vietnameseToSQL) : RegTest(vietnameseToSQL[k].pattern, trimmed)
     \/ endsWith(trimmed, <<";">>)

\* the loop "for (let i = 1; i < match.length; i++) sql = sql.replace(`$${i}`, match[i])"
RECURSIVE substituteGroups(_, _, _, _, _)
substituteGroups(sql, text, m, i, n) ==
  IF i > n THEN sql
  ELSE substituteGroups(replaceFirst(sql, <<"$", ToString(i)>>, GroupText(text, m, i)),
                        text, m, i + 1, n)

\* Convert Vietnamese to SQL: <<>> for null, <<sql>> otherwise
RECURSIVE convertFrom(_, _)
convertFrom(text, k) ==
  IF k > Len(vietnameseToSQL) THEN <<>>
  ELSE LET mapping == vietnameseToSQL[k]
           m == RegExec(mapping.pattern, text, 1)
       IN IF m.found
          THEN <<substituteGroups(mapping.template, text, m, 1, mapping.groups) \o <<";">>>>
          ELSE convertFrom(text, k + 1)
convertVietnameseToSQL(text) == convertFrom(text, 1)

\* fixFrom stopping at the first correction that applies
RECURSIVE fixFromFirstRule(_, _, _)
fixFromFirstRule(fixed, corrections, k) ==
  IF k > Len(sqlCorrections) THEN [fixed |-> fixed, corrections |-> corrections]
  ELSE LET correction == sqlCorrections[k]
       IN IF RegTest(correction.pattern, fixed)
          THEN [fixed |-> RegReplaceAll(correction.pattern, fixed, correction.fix),
                corrections |-> Append(corrections, correction.message)]
          ELSE fixFromFirstRule(fixed, corrections, k + 1)

\* Fix SQL typos
RECURSIVE fixFrom(_, _, _)
fixFrom(fixed, corrections, k) ==
  IF k > Len(sqlCorrections) THEN [fixed |-> fixed, corrections |-> corrections]
  ELSE LET correction == sqlCorrections[k]
       IN IF RegTest(correction.pattern, fixed)
          THEN fixFrom(RegReplaceAll(correction.pattern, fixed, correction.fix),
                       Append(corrections, correction.message), k + 1)
          ELSE fixFrom(fixed, corrections, k + 1)
fixSQLTypos(sql) == fixFrom(sql, <<>>, 1)

\* dangerFrom testing the text as it is, not trimmed
RECURSIVE dangerFromUntrimmed(_, _)
dangerFromUntrimmed(sql, k) ==
  IF k > Len(dangerousCommands) THEN <<>>
  ELSE IF RegTest(dangerousCommands[k].pattern, sql) THEN <<dangerousCommands[k]>>
  ELSE dangerFromUntrimmed(sql, k + 1)

\* Check for dangerous commands: <<>> for null, <<rule>> otherwise
RECURSIVE dangerFrom(_, _)
dangerFrom(sql, k) ==
  IF k > Len(dangerousCommands) THEN <<>>
  ELSE IF RegTest(dangerousCommands[k].pattern, trim(sql)) THEN <<dangerousCommands[k]>>
  ELSE dangerFrom(sql, k + 1)
checkDangerousCommand(sql) == dangerFrom(sql, 1)

\* The clauses explainSQL explains, in its order: the word looked for in the
\* upper-cased text and the pattern that must then match (none for JOIN).
explainRules == <<
  [word |-> <<"S","E","L","E","C","T">>, hasPattern |-> TRUE,
   pattern |-> Cat(<<Lit(<<"S","E","L","E","C","T">>), Plus(Ws), Grp(1, LazyPlus(Dot)), Plus(Ws), Lit(<<"F","R","O","M">>)>>)],
  [word |-> <<"F","R","O","M">>, hasPattern |-> TRUE,
   pattern |-> Cat(<<Lit(<<"F","R","O","M">>), Plus(Ws), Grp(1, Plus(Wd))>>)],
  [word |-> <<"W","H","E","R","E">>, hasPattern |-> TRUE,
   pattern |-> Cat(<<Lit(<<"W","H","E","R","E">>), Plus(Ws), Grp(1, LazyPlus(Dot)), Alt(<<Cat(<<Plus(Ws), Lit(<<"O","R","D","E","R">>)>>), Cat(<<Plus(Ws), Lit(<<"G","R","O","U","P">>)>>), Cat(<<Plus(Ws), Lit(<<"L","I","M","I","T">>)>>), Ch(";"), Eol>>)>>)],
  [word |-> <<"O","R","D","E","R"," ","B","Y">>, hasPattern |-> TRUE,
   pattern |-> Cat(<<Lit(<<"O","R","D","E","R">>), Plus(Ws), Lit(<<"B","Y">>), Plus(Ws), Grp(1, Plus(Wd)), Star(Ws), Opt(Grp(2, Alt(<<Lit(<<"A","S","C">>), Lit(<<"D","E","S","C">>)>>)))>>)],
  [word |-> <<"G","R","O","U","P"," ","B","Y">>, hasPattern |-> TRUE,
   pattern |-> Cat(<<Lit(<<"G","R","O","U","P">>), Plus(Ws), Lit(<<"B","Y">>), Plus(Ws), Grp(1, Plus(Wd))>>)],
  [word |-> <<"J","O","I","N">>, hasPattern |-> FALSE,
   pattern |-> Eol],
  [word |-> <<"I","N","S","E","R","T">>, hasPattern |-> TRUE,
   pattern |-> Cat(<<Lit(<<"I","N","S","E","R","T">>), Plus(Ws), Lit(<<"I","N","T","O">>), Plus(Ws), Grp(1, Plus(Wd))>>)],
  [word |-> <<"U","P","D","A","T","E">>, hasPattern |-> TRUE,
   pattern |-> Cat(<<Lit(<<"U","P","D","A","T","E">>), Plus(Ws), Grp(1, Plus(Wd))>>)],
  [word |-> <<"D","E","L","E","T","E">>, hasPattern |-> TRUE,
   pattern |-> Cat(<<Lit(<<"D","E","L","E","T","E">>), Plus(Ws), Lit(<<"F","R","O","M">>), Plus(Ws), Grp(1, Plus(Wd))>>)],
  [word |-> <<"C","R","E","A","T","E"," ","T","A","B","L","E">>, hasPattern |-> TRUE,
   pattern |-> Cat(<<Lit(<<"C","R","E","A","T","E">>), Plus(Ws), Lit(<<"T","A","B","L","E">>), Plus(Ws), Grp(1, Plus(Wd))>>)],
  [word |-> <<"A","L","T","E","R"," ","T","A","B","L","E">>, hasPattern |-> TRUE,
   pattern |-> Cat(<<Lit(<<"A","L","T","E","R">>), Plus(Ws), Lit(<<"T","A","B","L","E">>), Plus(Ws), Grp(1, Plus(Wd))>>)]
>>

\* Explain SQL parts: one part per clause explained; a part is given by the
\* clause's word (its wording, which depends on the mode property, is left out)
RECURSIVE explainFrom(_, _)
explainFrom(sql, k) ==
  IF k > Len(explainRules) THEN <<>>
  ELSE LET rule == explainRules[k]
       IN (IF /\ includes(toUpperCase(sql), rule.word)
              /\ (rule.hasPattern => RegTest(rule.pattern, sql))
           THEN <<rule.word>> ELSE <<>>) \o explainFrom(sql, k + 1)
explainSQL(sql) == explainFrom(sql, 1)

\* Get optimization suggestions
getOptimizationTips(sql) ==
  LET upperSQL == toUpperCase(sql)
  IN (IF includes(upperSQL, <<"S","E","L","E","C","T"," ","*">>)
      THEN <<"Nên chỉ dịnh cột cụ thể thay vì SELECT * dể tang hiệu suất">> ELSE <<>>)
     \o (IF /\ includes(upperSQL, <<"S","E","L","E","C","T">>)
            /\ ~includes(upperSQL, <<"L","I","M","I","T">>)
            /\ ~includes(upperSQL, <<"C","O","U","N","T">>)
         THEN <<"Thêm LIMIT dể giới hạn kết quả khi test">> ELSE <<>>)
     \o (IF includes(upperSQL, <<"L","I","K","E">>) /\ includes(sql, <<"'","%">>)
         THEN <<"LIKE bắt dầu bằng % sẽ không sử dụng INDEX">> ELSE <<>>)
     \o (IF includes(upperSQL, <<"O","R">>) /\ includes(upperSQL, <<"W","H","E","R","E">>)
         THEN <<"OR có thể chậm, xem xét dùng UNION hoặc IN thay thế">> ELSE <<>>)

\* getErrorHelp: <<>> for null, <<hint>> otherwise
getErrorHelp(error) ==
  IF \/ includes(error, <<"k","h","ô","n","g"," ","t","ồ","n"," ","t","ạ","i">>)
     \/ includes(error, <<"n","o","t"," ","f","o","u","n","d">>)
     \/ includes(error, <<"n","o"," ","s","u","c","h"," ","t","a","b","l","e">>)
  THEN <<"Gợi ý: Kiểm tra lại tên bảng/cột. Gõ \"tables\" dể xem danh sách bảng.">>
  ELSE IF \/ includes(error, <<"c","ú"," ","p","h","á","p">>)
          \/ includes(error, <<"S","y","n","t","a","x">>)
          \/ includes(error, <<"s","y","n","t","a","x">>)
  THEN <<"Gợi ý: Kiểm tra lại cú pháp SQL. Ví dụ: SELECT column FROM table WHERE condition;">>
  ELSE <<>>

\* the words executeCommand compares the lower-cased statement with
kw_help == <<"h","e","l","p">>
kw_clear == <<"c","l","e","a","r">>
kw_reset == <<"r","e","s","e","t">>
\* kw_tables misspelt
kw_table == <<"t","a","b","l","e">>
kw_tables == <<"t","a","b","l","e","s">>
kw_ai_on == <<"a","i"," ","o","n">>
kw_ai_off == <<"a","i"," ","o","f","f">>
kw_learn_on == <<"l","e","a","r","n"," ","o","n">>
kw_learn_off == <<"l","e","a","r","n"," ","o","f","f">>
kw_yes == <<"y","e","s">>
kw_y == <<"y">>
kw_no == <<"n","o">>
kw_n == <<"n">>
kw_desc == <<"d","e","s","c"," ">>
kw_describe == <<"d","e","s","c","r","i","b","e"," ">>

\* tableInfo: the tables desc knows
tableInfo == {<<"s","t","u","d","e","n","t","s">>,
              <<"p","r","o","d","u","c","t","s">>,
              <<"o","r","d","e","r","s">>,
              <<"e","m","p","l","o","y","e","e","s">>}

\* tableInfo is an object literal: for these lower-cased names tableInfo[name] is
\* what Object.prototype holds, which is truthy and has no map, so that
\* tableInfo[name].map(...) throws a TypeError
inheritedNames == {<<"c","o","n","s","t","r","u","c","t","o","r">>,
                   <<"_","_","p","r","o","t","o","_","_">>}

(***************************************************************************)
(* The query engine (hook useSQLEngine), at its interface: executeSQL      *)
(* returns a result and never throws; which result a statement gets is the *)
(* engine's choice.  A cell of a row is given by its String() text and     *)
(* whether it is null.                                                     *)
(***************************************************************************)
Cell(text) == [null |-> FALSE, text |-> text]
NullCell == [null |-> TRUE, text |-> <<>>]

ResultError ==
  [error |-> <<"n","o"," ","s","u","c","h"," ","t","a","b","l","e">>,
   columns |-> <<>>, rows |-> <<>>, affectedRows |-> 0, executionTime |-> 1]
ResultRows ==
  [error |-> <<>>, columns |-> <<"id", "name">>,
   rows |-> <<<<Cell(<<"1">>), NullCell>>>>, affectedRows |-> 0, executionTime |-> 1]
ResultOK ==
  [error |-> <<>>, columns |-> <<>>, rows |-> <<>>, affectedRows |-> 1, executionTime |-> 1]
Results == {ResultError, ResultRows, ResultOK}

\* an error getErrorHelp has no hint for
ResultErrorOther ==
  [error |-> <<"b","o","o","m">>,
   columns |-> <<>>, rows |-> <<>>, affectedRows |-> 0, executionTime |-> 1]

(***************************************************************************)
(* The state of the component                                              *)
(*   buffer, currentLine, history (the transcript), commandHistory (the    *)
(*   recall list), historyIndex (the recall cursor), aiEnabled,            *)
(*   learningMode, pendingDangerousCommand (<<>> for null, <<sql>>         *)
(*   otherwise), isMultiLine: the useState cells; idCounter: the useRef.   *)
(*   isReady: the engine's flag; executed: every text executeSQL was       *)
(*   called with, in order; db: the statements the data store has taken    *)
(*   since it was last in its initial state.                               *)
(* An entry of history is [id, type, content, table]; content is the       *)
(* message as a sequence of pieces (fixed pieces whole, interpolated text  *)
(* character by character), table is <<>> or <<[columns, rows]>>.  The     *)
(* timestamp of an entry is not kept: nothing reads it.                    *)
(*   explainer: the SQL explainer, a component of its own: sql, parts and  *)
(*   isAnalyzing are its useState cells, mode is the prop of its parent,   *)
(*   timers the timeouts that are pending, oldest first, each with the     *)
(*   sql and the mode its callback closed over.                            *)
(***************************************************************************)
VARIABLES buffer, currentLine, history, commandHistory, historyIndex,
          aiEnabled, learningMode, pendingDangerousCommand, isMultiLine,
          idCounter, isReady, executed, db,
          explainer

vars == <<buffer, currentLine, history, commandHistory, historyIndex,
          aiEnabled, learningMode, pendingDangerousCommand, isMultiLine,
          idCounter, isReady, executed, db, explainer>>

\* The bounds of the model: no handler that can add entries runs once MaxEntries
\* entries were created, and Enter appends no line to a buffer of MaxBuffer lines.
MaxEntries == 6
MaxBuffer == 2

\* .slice(0, 50) of the recall list
HistoryCap == 50

Cur ==
  [buffer |-> buffer, currentLine |-> currentLine, history |-> history,
   commandHistory |-> commandHistory, historyIndex |-> historyIndex,
   aiEnabled |-> aiEnabled, learningMode |-> learningMode,
   pendingDangerousCommand |-> pendingDangerousCommand,
   isMultiLine |-> isMultiLine, idCounter |-> idCounter, isReady |-> isReady,
   executed |-> executed, db |-> db]

Becomes(s) ==
  /\ buffer' = s.buffer
  /\ currentLine' = s.currentLine
  /\ history' = s.history
  /\ commandHistory' = s.commandHistory
  /\ historyIndex' = s.historyIndex
  /\ aiEnabled' = s.aiEnabled
  /\ learningMode' = s.learningMode
  /\ pendingDangerousCommand' = s.pendingDangerousCommand
  /\ isMultiLine' = s.isMultiLine
  /\ idCounter' = s.idCounter
  /\ isReady' = s.isReady
  /\ executed' = s.executed
  /\ db' = s.db
  /\ explainer' = explainer

\* the SQL explainer as it is mounted: its useState cells, the mode its parent
\* hands it, and no timer pending
ExplainerInit ==
  [sql |-> <<>>, parts |-> <<>>, isAnalyzing |-> FALSE, mode |-> "easy", timers |-> <<>>]

Init ==
  /\ buffer = <<>>
  /\ currentLine = <<>>
  /\ history = <<>>
  /\ commandHistory = <<>>
  /\ historyIndex = -1
  /\ aiEnabled = TRUE
  /\ learningMode = TRUE
  /\ pendingDangerousCommand = <<>>
  /\ isMultiLine = FALSE
  /\ idCounter = 0
  /\ isReady = FALSE
  /\ executed = <<>>
  /\ db = <<>>
  /\ explainer = ExplainerInit

(***************************************************************************)
(* addEntry and the handlers, as functions from the state before to the    *)
(* state after.  A handler reads the state of the render it was made in;   *)
(* every handler here is made anew whenever a cell it reads has changed.   *)
(***************************************************************************)
\* addEntryWith putting the entry first: [entry, ...prev]
addEntryFirst(s, type, content, table) ==
  [s EXCEPT !.history = <<[id |-> s.idCounter, type |-> type,
                           content |-> content, table |-> table]>> \o @,
            !.idCounter = @ + 1]

\* addEntryWith numbering the entry by its place in the transcript
addEntryIdByLength(s, type, content, table) ==
  [s EXCEPT !.history = Append(@, [id |-> Len(s.history), type |-> type,
                                   content |-> content, table |-> table]),
            !.idCounter = @ + 1]

addEntryWith(s, type, content, table) ==
  [s EXCEPT !.history = Append(@, [id |-> s.idCounter, type |-> type,
                                   content |-> content, table |-> table]),
            !.idCounter = @ + 1]
addEntry(s, type, content) == addEntryWith(s, type, content, <<>>)

without(cs, c) == SelectSeq(cs, LAMBDA x : x # c)

slice(xs, n) == IF Len(xs) > n THEN SubSeq(xs, 1, n) ELSE xs

\* newHistory without the filter: [fullSQL, ...prev].slice(0, 50)
newHistoryUnfiltered(prev, fullSQL) == slice(<<fullSQL>> \o prev, HistoryCap)

\* [fullSQL, ...prev.filter(c => c !== fullSQL)].slice(0, 50)
newHistory(prev, fullSQL) == slice(<<fullSQL>> \o without(prev, fullSQL), HistoryCap)

\* trimmedSQL.split(/\s+/)[1] of a trimmed text with a space in it
secondWord(s) ==
  LET firstEnd == Min({i \in 1..Len(s) : IsSpace(s[i])})
      start == Min({i \in firstEnd..Len(s) : ~IsSpace(s[i])})
      stops == {i \in start..Len(s) : IsSpace(s[i])}
  IN SubSeq(s, start, IF stops = {} THEN Len(s) ELSE Min(stops) - 1)

\* the name desc looks up: split(/\s+/)[1]?.replace(';', '')
descTableName(trimmedSQL) == replaceFirst(secondWord(trimmedSQL), <<";">>, <<>>)

\* executeCommand(fullSQL) throws: the statement is desc or describe of a name
\* tableInfo inherits
throwsTypeError(fullSQL) ==
  /\ \/ startsWith(toLowerCase(trim(fullSQL)), kw_desc)
     \/ startsWith(toLowerCase(trim(fullSQL)), kw_describe)
  /\ toLowerCase(descTableName(trim(fullSQL))) \in inheritedNames

\* isYes without its second word
isYesOnlyYes(lowerSQL) == lowerSQL = kw_yes
isYes(lowerSQL) == lowerSQL = kw_yes \/ lowerSQL = kw_y
\* isNo without its second word
isNoOnlyNo(lowerSQL) == lowerSQL = kw_no
isNo(lowerSQL) == lowerSQL = kw_no \/ lowerSQL = kw_n

\* the engine takes sql and answers result
executeSQL(s, sql) == [s EXCEPT !.executed = Append(@, sql), !.db = Append(@, sql)]
resetDB(s) == [s EXCEPT !.db = <<>>]

\* showError without the test of aiEnabled
showErrorAlwaysHints(s, aiOn, error, errorHelp) ==
  IF errorHelp # <<>>
  THEN addEntry(addEntry(s, "error", <<"ERROR: ">> \o error), "ai", errorHelp)
  ELSE addEntry(s, "error", <<"ERROR: ">> \o error)

\* runSQL, the error branch: the error entry, then the hint when there is one
showError(s, aiOn, error, errorHelp) ==
  IF aiOn /\ errorHelp # <<>>
  THEN addEntry(addEntry(s, "error", <<"ERROR: ">> \o error), "ai", errorHelp)
  ELSE addEntry(s, "error", <<"ERROR: ">> \o error)

\* showTips without the test of aiEnabled
showTipsLearningOnly(s, tips) ==
  IF s.learningMode /\ tips # <<>>
  THEN addEntry(s, "ai", <<"Gợi ý tối ưu:">> \o tips)
  ELSE s

\* runSQL, "AI optimization tips in learning mode"
showTips(s, tips) ==
  IF s.learningMode /\ s.aiEnabled /\ tips # <<>>
  THEN addEntry(s, "ai", <<"Gợi ý tối ưu:">> \o tips)
  ELSE s

\* runSQL, "Show results"
showResult(s, result) ==
  IF Len(result.columns) > 0 /\ Len(result.rows) > 0
  THEN addEntryWith(s, "result",
         <<ToString(Len(result.rows)), " row(s) in set (",
           ToString(result.executionTime), "ms)">>,
         <<[columns |-> result.columns, rows |-> result.rows]>>)
  ELSE addEntry(s, "info",
         <<"Query OK, ", ToString(result.affectedRows),
           " row(s) affected (", ToString(result.executionTime), "ms)">>)

\* runSQL, "AI explanation"
showExplanation(s, explanation) ==
  IF s.aiEnabled /\ explanation # <<>>
  THEN addEntry(s, "ai", <<"Giải thích:">> \o explanation)
  ELSE s

runSQL(s, sql, result) ==
  IF result.error # <<>>
  THEN showError(executeSQL(s, sql), s.aiEnabled, result.error, getErrorHelp(result.error))
  ELSE showTips(showResult(showExplanation(executeSQL(s, sql), explainSQL(sql)), result),
                getOptimizationTips(sql))

\* dangerStep without the test of the level: it warns and runs the statement
dangerStepRunsAll(s, sqlToExecute, dangerous, result) ==
  IF dangerous = <<>> THEN runSQL(s, sqlToExecute, result)
  ELSE runSQL(addEntry(s, "warning", dangerous[1].warning), sqlToExecute, result)

\* dangerStep without the test of the level: it warns and holds the statement
dangerStepHoldsAll(s, sqlToExecute, dangerous, result) ==
  IF dangerous = <<>> THEN runSQL(s, sqlToExecute, result)
  ELSE addEntry([addEntry(s, "warning", dangerous[1].warning)
                   EXCEPT !.pendingDangerousCommand = <<sqlToExecute>>],
                "warning", <<"Gõ \"yes\" dể xác nhận thực thi hoặc \"no\" dể hủy">>)

\* executeCommand, "3. Check for dangerous commands" and what follows it
dangerStep(s, sqlToExecute, dangerous, result) ==
  IF dangerous = <<>> THEN runSQL(s, sqlToExecute, result)
  ELSE IF dangerous[1].level = "high"
  THEN addEntry([addEntry(s, "warning", dangerous[1].warning)
                   EXCEPT !.pendingDangerousCommand = <<sqlToExecute>>],
                "warning", <<"Gõ \"yes\" dể xác nhận thực thi hoặc \"no\" dể hủy">>)
  ELSE runSQL(addEntry(s, "warning", dangerous[1].warning), sqlToExecute, result)

\* fixStep with the danger check on the text before the corrections
fixStepClassifiesRaw(s, sql, fix, result) ==
  IF Len(fix.corrections) > 0
  THEN dangerStep(addEntry(s, "ai", <<"Sửa lỗi:">> \o fix.corrections \o <<" → ">> \o fix.fixed),
                  fix.fixed, checkDangerousCommand(sql), result)
  ELSE dangerStep(s, sql, checkDangerousCommand(sql), result)

\* executeCommand, "2. Fix typos" and what follows it
fixStep(s, sql, fix, result) ==
  IF Len(fix.corrections) > 0
  THEN dangerStep(addEntry(s, "ai", <<"Sửa lỗi:">> \o fix.corrections \o <<" → ">> \o fix.fixed),
                  fix.fixed, checkDangerousCommand(fix.fixed), result)
  ELSE dangerStep(s, sql, checkDangerousCommand(sql), result)

\* executeCommand, "1. Try Vietnamese to SQL conversion" and what follows it
convertStep(s, trimmedSQL, convertedSQL, result) ==
  IF convertedSQL # <<>>
  THEN fixStep(addEntry(s, "ai", <<"Chuyển dổi tiếng Việt → SQL: ">> \o convertedSQL[1]),
               convertedSQL[1], fixSQLTypos(convertedSQL[1]), result)
  ELSE fixStep(s, trimmedSQL, fixSQLTypos(trimmedSQL), result)

\* processSQL without the test of aiEnabled
processSQLAlways(s, trimmedSQL, result) ==
  convertStep(s, trimmedSQL, convertVietnameseToSQL(trimmedSQL), result)

\* executeCommand, "AI Processing" and the call of runSQL
processSQL(s, trimmedSQL, result) ==
  IF s.aiEnabled
  THEN convertStep(s, trimmedSQL, convertVietnameseToSQL(trimmedSQL), result)
  ELSE runSQL(s, trimmedSQL, result)

\* Execute the final command
executeCommand(s0, fullSQL, result) ==
  LET s == [s0 EXCEPT !.commandHistory = newHistory(@, fullSQL), !.historyIndex = -1]
      trimmedSQL == trim(fullSQL)
      lowerSQL == toLowerCase(trimmedSQL)
      tableName == descTableName(trimmedSQL)
  IN IF lowerSQL = kw_help THEN addEntry(s, "info", <<"HƯỚNG DẪN SỬ DỤNG (GIỐNG MYSQL CLI)">>)
     ELSE IF lowerSQL = kw_clear THEN [s EXCEPT !.history = <<>>]
     ELSE IF lowerSQL = kw_reset
       THEN addEntry(resetDB(s), "info",
                     <<"Database dã dược khôi phục về trạng thái ban dầu!">>)
     ELSE IF lowerSQL = kw_tables THEN addEntry(s, "info", <<"DANH SÁCH BẢNG">>)
     ELSE IF startsWith(lowerSQL, kw_desc) \/ startsWith(lowerSQL, kw_describe)
       THEN IF throwsTypeError(fullSQL) THEN s
            ELSE IF tableName # <<>> /\ toLowerCase(tableName) \in tableInfo
            THEN addEntry(s, "info", <<"Cấu trúc bảng: ">> \o tableName)
            ELSE addEntry(s, "error", <<"Bảng \"">> \o tableName \o <<"\" không tồn tại!">>)
     ELSE IF lowerSQL = kw_ai_on
       THEN addEntry([s EXCEPT !.aiEnabled = TRUE], "info", <<"AI hỗ trợ dã dược BẬT">>)
     ELSE IF lowerSQL = kw_ai_off
       THEN addEntry([s EXCEPT !.aiEnabled = FALSE], "info", <<"AI hỗ trợ dã dược TẮT">>)
     ELSE IF lowerSQL = kw_learn_on
       THEN addEntry([s EXCEPT !.learningMode = TRUE], "info",
                     <<"Chế dộ học tập dã dược BẬT - Sẽ hiển thị gợi ý tối ưu">>)
     ELSE IF lowerSQL = kw_learn_off
       THEN addEntry([s EXCEPT !.learningMode = FALSE], "info",
                     <<"Chế dộ học tập dã dược TẮT">>)
     ELSE IF s.pendingDangerousCommand # <<>> /\ isYes(lowerSQL)
       THEN runSQL([s EXCEPT !.pendingDangerousCommand = <<>>],
                   s.pendingDangerousCommand[1], result)
     ELSE IF s.pendingDangerousCommand # <<>> /\ isNo(lowerSQL)
       THEN addEntry([s EXCEPT !.pendingDangerousCommand = <<>>], "info", <<"Dã hủy lệnh.">>)
     ELSE processSQL(s, trimmedSQL, result)

\* "Display all lines in history": allLines.forEach((line, idx) => ...)
RECURSIVE echoLines(_, _, _)
echoLines(s, allLines, idx) ==
  IF idx > Len(allLines) THEN s
  ELSE echoLines(IF allLines[idx] # <<>> \/ idx = 1
                 THEN addEntry(s, IF idx = 1 THEN "input" ELSE "continuation", allLines[idx])
                 ELSE s,
                 allLines, idx + 1)

\* [...buffer, currentLine].filter(l => l)
RECURSIVE nonEmpty(_)
nonEmpty(ls) ==
  IF ls = <<>> THEN <<>>
  ELSE (IF Head(ls) # <<>> THEN <<Head(ls)>> ELSE <<>>) \o nonEmpty(Tail(ls))

clearInput(s) == [s EXCEPT !.buffer = <<>>, !.currentLine = <<>>, !.isMultiLine = FALSE]

\* what follows executeCommand(fullSQL) in the handlers, setBuffer([]) and so on,
\* is not reached when executeCommand throws; what was set before is kept
afterExecute(s, fullSQL) == IF throwsTypeError(fullSQL) THEN s ELSE clearInput(s)

\* handleCtrlC leaving the confirmation as well
handleCtrlCExitsPending(s) ==
  [clearInput(
     IF Len(s.buffer) > 0 \/ s.currentLine # <<>>
     THEN addEntry(echoLines(s, nonEmpty(Append(s.buffer, s.currentLine)), 1), "info", <<"^C">>)
     ELSE s)
   EXCEPT !.pendingDangerousCommand = <<>>]

\* handleCtrlC without the filter of the blank lines
handleCtrlCUnfiltered(s) ==
  clearInput(
    IF Len(s.buffer) > 0 \/ s.currentLine # <<>>
    THEN addEntry(echoLines(s, Append(s.buffer, s.currentLine), 1), "info", <<"^C">>)
    ELSE s)

\* handleKeyDown, Ctrl+C = cancel current input
handleCtrlC(s) ==
  clearInput(
    IF Len(s.buffer) > 0 \/ s.currentLine # <<>>
    THEN addEntry(echoLines(s, nonEmpty(Append(s.buffer, s.currentLine)), 1), "info", <<"^C">>)
    ELSE s)

\* handleArrowUp without the test against the length of the recall list
handleArrowUpUnbounded(s) ==
  IF Len(s.buffer) = 0 /\ s.currentLine = <<>>
  THEN [s EXCEPT !.historyIndex = @ + 1,
                 !.currentLine = IF s.historyIndex + 2 <= Len(s.commandHistory)
                                 THEN s.commandHistory[s.historyIndex + 2] ELSE <<>>]
  ELSE s

\* handleKeyDown, Arrow Up = previous command in history (only when buffer is empty)
handleArrowUp(s) ==
  IF Len(s.buffer) = 0 /\ s.currentLine = <<>>
  THEN IF s.historyIndex < Len(s.commandHistory) - 1
       THEN [s EXCEPT !.historyIndex = @ + 1,
                      !.currentLine = s.commandHistory[s.historyIndex + 2]]
       ELSE s
  ELSE s

\* handleArrowDown without the test of the buffer
handleArrowDownAnyBuffer(s) ==
  IF s.historyIndex > 0
  THEN [s EXCEPT !.historyIndex = @ - 1,
                 !.currentLine = s.commandHistory[s.historyIndex]]
  ELSE IF s.historyIndex = 0
  THEN [s EXCEPT !.historyIndex = -1, !.currentLine = <<>>]
  ELSE s

\* handleKeyDown, Arrow Down = next command in history
handleArrowDown(s) ==
  IF Len(s.buffer) = 0
  THEN IF s.historyIndex > 0
       THEN [s EXCEPT !.historyIndex = @ - 1,
                      !.currentLine = s.commandHistory[s.historyIndex]]
       ELSE IF s.historyIndex = 0
       THEN [s EXCEPT !.historyIndex = -1, !.currentLine = <<>>]
       ELSE s
  ELSE s

\* handleEnter handing executeCommand the text as it was typed, not trimmed
handleEnterUntrimmed(s, result) ==
  LET allLines == Append(s.buffer, s.currentLine)
      fullCommand == joinLines(allLines)
  IN IF isCommandComplete(fullCommand)
     THEN afterExecute(executeCommand(echoLines(s, allLines, 1), fullCommand, result),
                       fullCommand)
     ELSE [s EXCEPT !.buffer = Append(@, s.currentLine),
                    !.currentLine = <<>>,
                    !.isMultiLine = TRUE]

\* handleKeyDown, Enter = new line OR execute if ends with ;
handleEnter(s, result) ==
  LET allLines == Append(s.buffer, s.currentLine)
      fullCommand == joinLines(allLines)
  IN IF isCommandComplete(fullCommand)
     THEN afterExecute(executeCommand(echoLines(s, allLines, 1), trim(fullCommand), result),
                       trim(fullCommand))
     ELSE [s EXCEPT !.buffer = Append(@, s.currentLine),
                    !.currentLine = <<>>,
                    !.isMultiLine = TRUE]

\* handleCtrlEnter without the test "if (fullCommand)"
handleCtrlEnterSubmitsEmpty(s, result) ==
  LET allLines == Append(s.buffer, s.currentLine)
      fullCommand == trim(joinLines(allLines))
  IN afterExecute(executeCommand(echoLines(s, allLines, 1), fullCommand, result),
                  fullCommand)

\* handleCtrlEnter asking for what Enter asks for
handleCtrlEnterLikeEnter(s, result) == handleEnter(s, result)

\* handleKeyDown, Ctrl+Enter = execute immediately
handleCtrlEnter(s, result) ==
  LET allLines == Append(s.buffer, s.currentLine)
      fullCommand == trim(joinLines(allLines))
  IN IF fullCommand # <<>>
     THEN afterExecute(executeCommand(echoLines(s, allLines, 1), fullCommand, result),
                       fullCommand)
     ELSE s

\* the quick-action buttons
examples == <<
  <<"S","E","L","E","C","T"," ","*"," ","F","R","O","M"," ","s","t","u","d","e","n","t","s",";">>,
  <<"l","ấ","y"," ","t","ấ","t"," ","c","ả"," ","t","ừ"," ","p","r","o","d","u","c","t","s">>,
  <<"S","E","L","E","C","T"," ","n","a","m","e",","," ","a","g","e","\n","F","R","O","M"," ","s","t","u","d","e","n","t","s","\n","W","H","E","R","E"," ","a","g","e"," ",">"," ","2","0",";">>>>

handleExample(s, example) ==
  IF includes(example, <<"\n">>)
  THEN [s EXCEPT !.buffer = <<>>, !.currentLine = example]
  ELSE [s EXCEPT !.currentLine = example]

(***************************************************************************)
(* The actions: what the engine and the user can do                        *)
(***************************************************************************)
\* the engine becomes ready; the welcome effect runs
EngineReady ==
  /\ ~isReady
  /\ Becomes(LET s == [Cur EXCEPT !.isReady = TRUE]
             IN IF Len(history) = 0
                THEN addEntry(s, "info", <<"MySQL 8.0 Command Line Client - AI Enhanced">>)
                ELSE s)

\* the textarea's onChange: the user edits the current line into text
OnChange(text) ==
  /\ text # currentLine
  /\ Becomes([Cur EXCEPT !.currentLine = text])

QuickExample ==
  \E i \in 1..Len(examples) : Becomes(handleExample(Cur, examples[i]))

ToggleAI == Becomes([Cur EXCEPT !.aiEnabled = ~aiEnabled])
ToggleLearning == Becomes([Cur EXCEPT !.learningMode = ~learningMode])

CtrlL == Becomes([Cur EXCEPT !.history = <<>>])

CtrlC ==
  /\ idCounter < MaxEntries
  /\ Becomes(handleCtrlC(Cur))

CtrlEnter(results) ==
  /\ idCounter < MaxEntries
  /\ \E result \in results : Becomes(handleCtrlEnter(Cur, result))

ArrowUp == Becomes(handleArrowUp(Cur))
ArrowDown == Becomes(handleArrowDown(Cur))

Enter(results) ==
  /\ IF isCommandComplete(joinLines(Append(buffer, currentLine)))
     THEN idCounter < MaxEntries
     ELSE Len(buffer) < MaxBuffer
  /\ \E result \in results : Becomes(handleEnter(Cur, result))

\* what the user types
in_empty == <<>>
in_drop == <<"D","R","O","P"," ","T","A","B","L","E"," ","s","t","u","d","e","n","t","s",";">>
in_truncate == <<"t","r","u","n","c","a","t","e"," ","t",";">>
in_yes == <<"y","e","s">>
in_Y == <<"Y">>
in_no == <<"n","o">>
in_N == <<"N">>
in_help == <<"h","e","l","p">>
in_select == <<"S","E","L","E","C","T"," ","1">>
in_from == <<"F","R","O","M"," ","t",";"," ">>
in_help_semi == <<"h","e","l","p",";">>
in_clear == <<"C","l","e","a","r">>
in_reset == <<"r","e","s","e","t">>
in_tables == <<"t","a","b","l","e","s">>
in_desc == <<"d","e","s","c"," ","s","t","u","d","e","n","t","s">>
in_ai_off == <<"a","i"," ","o","f","f">>
in_ai_on == <<"a","i"," ","o","n">>
in_learn_off == <<"l","e","a","r","n"," ","o","f","f">>
in_learn_on == <<"l","e","a","r","n"," ","o","n">>
in_products == <<"l","ấ","y"," ","t","ấ","t"," ","c","ả"," ","t","ừ"," ","p","r","o","d","u","c","t","s">>
in_find == <<"t","ì","m"," ","$","2"," ","t","r","o","n","g"," ","t"," ","v","ớ","i"," ","x">>
in_count == <<"U+0111","ế","m"," ","x","e","m"," ","a">>
in_typos == <<"S","L","E","C","T"," ","*"," ","F","O","R","M"," ","t"," ","W","H","E","R"," ","F","O","R","M"," ","="," ","1",";">>
in_jionset == <<"J","I","O","N","S","E","T",";">>
in_spaced_drop == <<" ","D","R","O","P"," ","T","A","B","L","E"," ","t",";">>
in_update == <<"U","P","D","A","T","E"," ","t"," ","S","E","T"," ","a"," ","="," ","1",";">>
in_star == <<"S","E","L","E","C","T"," ","*"," ","F","R","O","M"," ","t",";">>
in_describe == <<"D","E","S","C","R","I","B","E"," ","n","o","n","e",";">>
in_desc_ctor == <<"d","e","s","c"," ","c","o","n","s","t","r","u","c","t","o","r">>
in_delte == <<"D","E","L","T","E"," ","F","R","O","M"," ","s","t","u","d","e","n","t","s",";">>

\* The whole machine.  The properties below are stated for specifications that
\* take some of the events and a few of the texts each.
Keys == {in_drop, in_yes, in_select}

Next ==
  \/ EngineReady
  \/ \E text \in Keys : OnChange(text)
  \/ QuickExample
  \/ ToggleAI
  \/ ToggleLearning
  \/ CtrlL
  \/ CtrlC
  \/ CtrlEnter(Results)
  \/ ArrowUp
  \/ ArrowDown
  \/ Enter(Results)

Spec == Init /\ [][Next]_vars

(***************************************************************************)
(* The confirmation of dangerous statements: the user types a DROP and     *)
(* the answers, switches the AI and presses Enter.                         *)
(***************************************************************************)
ConfirmKeys == {in_drop, in_yes, in_Y, in_no, in_N}

NextConfirm ==
  \/ EngineReady
  \/ \E text \in ConfirmKeys : OnChange(text)
  \/ ToggleAI
  \/ Enter({ResultOK})

SpecConfirm == Init /\ [][NextConfirm]_vars

\* the statement Enter or Ctrl+Enter submits, and its lower-cased text
Submitted == trim(joinLines(Append(buffer, currentLine)))
Reply == toLowerCase(Submitted)

\* a step of Enter, whatever the engine answers (Enter always leaves the
\* current line empty: that is tested first, being the quicker test)
EnterStep == currentLine' = <<>> /\ Enter(Results)

\* statements the DROP and TRUNCATE rules, of level high, match
HighStatements == {in_drop, in_truncate}

\* the entries a step appends to the transcript
NewEntries == SubSeq(history', Len(history) + 1, Len(history'))
Appends == Len(history') >= Len(history) /\ SubSeq(history', 1, Len(history)) = history

\* C1, as the claim states it: whatever aiEnabled and learningMode are, a
\* statement of level high reaches executeSQL only in the step that submits
\* yes or y.
C1_GatedWhateverAI ==
  [][(executed' # executed /\ executed'[Len(executed')] \in HighStatements)
       => Reply \in {<<"y","e","s">>, <<"y">>}]_vars

\* C1, amended: while aiEnabled is on, a statement of level high reaches
\* executeSQL only in the step that submits yes or y while that very statement
\* is the pending one.
C1_GatedWhenAIOn ==
  [][(aiEnabled /\ executed' # executed /\ executed'[Len(executed')] \in HighStatements)
       => /\ Reply \in {<<"y","e","s">>, <<"y">>}
          /\ pendingDangerousCommand = <<executed'[Len(executed')]>>]_vars

\* the DROP was submitted with the AI on: it is pending and was not executed
C1_Witness ==
  /\ aiEnabled
  /\ commandHistory = <<in_drop>>
  /\ pendingDangerousCommand = <<in_drop>>
  /\ executed = <<>>

\* C2: with a statement pending, Enter on no or n in any letter case calls
\* executeSQL with nothing, leaves the store as it is, empties
\* pendingDangerousCommand and appends, after the echo of the input, exactly one
\* entry: the info entry that says the statement was cancelled.
C2_NoCancels ==
  [][(pendingDangerousCommand # <<>> /\ Reply \in {<<"n","o">>, <<"n">>} /\ EnterStep)
       => /\ executed' = executed
          /\ db' = db
          /\ pendingDangerousCommand' = <<>>
          /\ Appends
          /\ Len(NewEntries) >= 2
          /\ \A k \in 1..Len(NewEntries) :
               IF k < Len(NewEntries)
               THEN NewEntries[k].type \in {"input", "continuation"}
               ELSE NewEntries[k].type = "info" /\ NewEntries[k].content = <<"Dã hủy lệnh.">>]_vars

\* N answered the prompt of the DROP: nothing pending, nothing executed
C2_Witness ==
  /\ commandHistory = <<in_N, in_drop>>
  /\ pendingDangerousCommand = <<>>
  /\ executed = <<>>
  /\ history # <<>>
  /\ history[Len(history)].content = <<"Dã hủy lệnh.">>

\* C3: with a statement S pending, Enter on yes or y in any letter case calls
\* executeSQL once, with S, and empties pendingDangerousCommand; with nothing
\* pending, Enter on yes or y calls executeSQL with the submitted text itself,
\* so a second yes does not execute S again.
C3_YesExecutesOnce ==
  [][(Reply \in {<<"y","e","s">>, <<"y">>} /\ EnterStep)
       => IF pendingDangerousCommand # <<>>
          THEN /\ executed' = Append(executed, pendingDangerousCommand[1])
               /\ pendingDangerousCommand' = <<>>
          ELSE /\ executed' = Append(executed, Submitted)
               /\ pendingDangerousCommand' = <<>>]_vars

\* Y confirmed the DROP and a yes followed: the DROP was executed once
C3_Witness ==
  /\ executed = <<in_drop, in_yes>>
  /\ commandHistory = <<in_yes, in_Y, in_drop>>
  /\ pendingDangerousCommand = <<>>
(***************************************************************************)
(* What is submitted while a statement is pending: a second dangerous      *)
(* statement, a console command with and without a ; after it; and Ctrl+C. *)
(***************************************************************************)
ReplyKeys == {in_drop, in_truncate, in_help, in_help_semi}

NextReply ==
  \/ EngineReady
  \/ \E text \in ReplyKeys : OnChange(text)
  \/ CtrlC
  \/ Enter({ResultOK})

SpecReply == Init /\ [][NextReply]_vars

\* the four answers, lower-cased
Answers == {<<"y","e","s">>, <<"y">>, <<"n","o">>, <<"n">>}

\* C4: with a statement S pending, Enter on anything but yes, y, no, n leaves S
\* the pending statement and does not call executeSQL with S.
C4_OtherInputKeepsPending ==
  [][(pendingDangerousCommand # <<>> /\ Reply \notin Answers /\ EnterStep)
       => /\ pendingDangerousCommand' = pendingDangerousCommand
          /\ \/ executed' = executed
             \/ executed'[Len(executed')] # pendingDangerousCommand[1]]_vars

\* C5: with a statement pending, what Enter submits is taken as an answer and
\* nothing else: no console command runs (the switches and the transcript's
\* earlier entries stay, nothing but the echo, the cancellation and the prompt
\* is added when the answer is not yes), no stage of the pipeline adds an entry,
\* and executeSQL is called, if at all, on yes and with the pending statement.
C5_OnlyAnAnswer ==
  [][(pendingDangerousCommand # <<>> /\ EnterStep)
       => /\ aiEnabled' = aiEnabled
          /\ learningMode' = learningMode
          /\ Appends
          /\ executed' # executed
               => /\ Reply \in {<<"y","e","s">>, <<"y">>}
                  /\ executed' = Append(executed, pendingDangerousCommand[1])
          /\ Reply \notin {<<"y","e","s">>, <<"y">>}
               => \A k \in 1..Len(NewEntries) :
                    \/ NewEntries[k].type \in {"input", "continuation"}
                    \/ NewEntries[k].content = <<"Dã hủy lệnh.">>
                    \/ NewEntries[k].content =
                         <<"Gõ \"yes\" dể xác nhận thực thi hoặc \"no\" dể hủy">>]_vars

\* C6: with a statement S1 pending, Enter on a second statement of level high
\* leaves S1 the pending statement.
C6_SingleSlot ==
  [][(pendingDangerousCommand # <<>> /\ Submitted \in HighStatements /\ EnterStep)
       => pendingDangerousCommand' = pendingDangerousCommand]_vars

\* C7: Ctrl+C leaves buffer and currentLine empty and nothing pending.
C7_CancelClearsPending ==
  [][CtrlC => /\ buffer' = <<>>
              /\ currentLine' = <<>>
              /\ pendingDangerousCommand' = <<>>]_vars
(***************************************************************************)
(* Entering statements: lines with and without the terminator, Enter and   *)
(* Ctrl+Enter.                                                             *)
(***************************************************************************)
InputKeys == {in_select, in_from}

NextInput ==
  \/ EngineReady
  \/ \E text \in InputKeys : OnChange(text)
  \/ CtrlEnter({ResultOK})
  \/ Enter({ResultOK})

SpecInput == Init /\ [][NextInput]_vars

\* a step of Ctrl+Enter that submits something
CtrlEnterStep == currentLine' = <<>> /\ CtrlEnter(Results)

\* the text matches the pattern of a translation rule
Translatable(text) == \E k \in 1..Len(vietnameseToSQL) : RegTest(vietnameseToSQL[k].pattern, text)

\* the text is one of the bare keywords
BareKeyword(text) == \E k \in 1..Len(specialCommands) : toLowerCase(text) = specialCommands[k]

\* C8: on Enter, with T the trimmed join of the buffered lines and the current
\* line: if T ends with ; it is dispatched (it heads the recall list, the cursor
\* is reset) and buffer and currentLine are emptied; if T does not end with ;,
\* is no bare keyword, does not start with desc or describe and a space, and
\* matches no translation rule, nothing is dispatched or echoed and the current
\* line is appended to the buffer.
C8_Completeness ==
  [][EnterStep
       => /\ endsWith(Submitted, <<";">>)
               => /\ commandHistory' # <<>>
                  /\ commandHistory'[1] = Submitted
                  /\ historyIndex' = -1
                  /\ buffer' = <<>>
                  /\ currentLine' = <<>>
          /\ (/\ ~endsWith(Submitted, <<";">>)
              /\ ~BareKeyword(Submitted)
              /\ ~startsWith(toLowerCase(Submitted), <<"d","e","s","c"," ">>)
              /\ ~startsWith(toLowerCase(Submitted), <<"d","e","s","c","r","i","b","e"," ">>)
              /\ ~Translatable(Submitted))
               => /\ buffer' = Append(buffer, currentLine)
                  /\ currentLine' = <<>>
                  /\ history' = history
                  /\ commandHistory' = commandHistory
                  /\ executed' = executed]_vars

\* SELECT 1 was buffered and FROM t; completed the statement, which was dispatched
C8_Witness ==
  /\ commandHistory # <<>>
  /\ commandHistory[1] = in_select \o <<"\n">> \o <<"F","R","O","M"," ","t",";">>
  /\ buffer = <<>>
  /\ currentLine = <<>>

\* the text without the ; it may end with
withoutTerminator(text) ==
  IF endsWith(text, <<";">>) THEN trim(SubSeq(text, 1, Len(text) - 1)) ELSE text

\* C9: Enter on a bare keyword, with or without a ; after it, submits it at
\* once, and it is handled as a console command: executeSQL is not called.
C9_KeywordsAreCommands ==
  [][(BareKeyword(withoutTerminator(Submitted)) /\ EnterStep)
       => /\ commandHistory' # <<>>
          /\ commandHistory'[1] = Submitted
          /\ executed' = executed]_vars

\* C10: Ctrl+Enter on a non-empty trimmed join of buffer and currentLine
\* dispatches it as one statement, terminated or not, and empties buffer and
\* currentLine; on an empty one it changes nothing.
C10_ForceSubmit ==
  /\ [](Submitted = <<>> => \A result \in Results : handleCtrlEnter(Cur, result) = Cur)
  /\ [][(Submitted # <<>> /\ CtrlEnterStep)
          => /\ commandHistory' # <<>>
             /\ commandHistory'[1] = Submitted
             /\ historyIndex' = -1
             /\ buffer' = <<>>
             /\ currentLine' = <<>>]_vars

\* SELECT 1, which has no terminator, was dispatched and reached the engine
C10_Witness ==
  /\ commandHistory # <<>>
  /\ commandHistory[1] = in_select
  /\ executed # <<>>
  /\ executed[Len(executed)] = in_select
  /\ buffer = <<>>
  /\ currentLine = <<>>

(***************************************************************************)
(* The console commands and the transcript: the user types console         *)
(* commands and a DROP, presses Enter, Ctrl+Enter and Ctrl+C, and clears   *)
(* the screen with Ctrl+L.                                                 *)
(***************************************************************************)
ConsoleKeys == {in_drop, in_help, in_clear}

NextConsole ==
  \/ EngineReady
  \/ \E text \in ConsoleKeys : OnChange(text)
  \/ CtrlL
  \/ CtrlC
  \/ CtrlEnter({ResultOK})
  \/ Enter({ResultOK})

SpecConsole == Init /\ [][NextConsole]_vars

\* a step that dispatches the typed statement: Enter on a complete input, or
\* Ctrl+Enter on an input that is not blank
Dispatch ==
  /\ currentLine' = <<>>
  /\ buffer' = <<>>
  /\ \/ /\ isCommandComplete(joinLines(Append(buffer, currentLine)))
        /\ \E result \in Results : Becomes(handleEnter(Cur, result))
     \/ /\ Submitted # <<>>
        /\ \E result \in Results : Becomes(handleCtrlEnter(Cur, result))

\* C11: the transcript is append-only.  Every step either leaves the entries
\* there were in place and in order, adding entries after them, or empties the
\* transcript; and it empties a transcript that held entries only when it
\* dispatches the console command clear or is the clear-screen chord Ctrl+L.
C11_AppendOnly ==
  [][\/ Appends
     \/ /\ history' = <<>>
        /\ \/ Reply = <<"c","l","e","a","r">> /\ Dispatch
           \/ CtrlL]_vars

\* the transcript was emptied by the command clear and got an entry after that
C11_Witness ==
  /\ commandHistory # <<>>
  /\ commandHistory[Len(commandHistory)] = in_clear
  /\ Len(history) = 2
  /\ history[1].id > 1
  /\ history[2].id = history[1].id + 1

(***************************************************************************)
(* The recall list: the user types a console command, a statement and a    *)
(* DROP, or empties the line, presses Enter and walks the list with the    *)
(* arrows.                                                                 *)
(***************************************************************************)
RecallKeys == {in_empty, in_help, in_from, in_drop}

NextRecall ==
  \/ EngineReady
  \/ \E text \in RecallKeys : OnChange(text)
  \/ ArrowUp
  \/ ArrowDown
  \/ Enter({ResultOK})

SpecRecall == Init /\ [][NextRecall]_vars

\* the input shows entry k of the recall list (k counted from 0, as historyIndex)
Shows(k) ==
  /\ buffer = <<>>
  /\ historyIndex = k
  /\ k < Len(commandHistory)
  /\ currentLine = commandHistory[k + 1]

\* C12: the arrows walk the recall list.  With an empty input and no entry
\* shown, Up shows the most recent statement; Up pressed while entry k is shown
\* shows entry k + 1, the next older one, when there is one; Down pressed while
\* entry k > 0 is shown shows entry k - 1; Down pressed while entry 0 is shown
\* empties the line and sets historyIndex to -1.
C12_RecallNavigation ==
  /\ (buffer = <<>> /\ currentLine = <<>> /\ historyIndex = -1 /\ commandHistory # <<>>)
       => /\ handleArrowUp(Cur).currentLine = commandHistory[1]
          /\ handleArrowUp(Cur).historyIndex = 0
  /\ \A k \in 0..(Len(commandHistory) - 2) :
       Shows(k) => /\ handleArrowUp(Cur).currentLine = commandHistory[k + 2]
                   /\ handleArrowUp(Cur).historyIndex = k + 1
  /\ \A k \in 1..(Len(commandHistory) - 1) :
       Shows(k) => /\ handleArrowDown(Cur).currentLine = commandHistory[k]
                   /\ handleArrowDown(Cur).historyIndex = k - 1
  /\ Shows(0) => /\ handleArrowDown(Cur).currentLine = <<>>
                 /\ handleArrowDown(Cur).historyIndex = -1

\* the texts in a list
Range(xs) == {xs[k] : k \in 1..Len(xs)}

\* C14, as the claim states it: every entry of the recall list is a statement
\* that was executed; console commands, answers and statements that were
\* suspended and not confirmed are not in it.
C14_OnlyExecuted == \A k \in 1..Len(commandHistory) : commandHistory[k] \in Range(executed)

\* C14, amended: every entry of the recall list is the trimmed text of a
\* submission that was dispatched, whether or not it reached the engine.  The
\* list changes only in a step that dispatches, the text dispatched is then its
\* first entry, and every other entry was in the list before.
C14_OnlyDispatched ==
  [][/\ commandHistory' # commandHistory => Dispatch
     /\ Dispatch => /\ commandHistory' # <<>>
                    /\ commandHistory'[1] = Submitted
                    /\ Range(commandHistory') \subseteq Range(commandHistory) \cup {Submitted}]_vars

\* a console command and a DROP that is held and was not executed are both in the
\* recall list, and so is a statement typed with a space after it, trimmed
C14_Witness ==
  /\ commandHistory = <<in_drop, trim(in_from), in_help>>
  /\ pendingDangerousCommand = <<in_drop>>
  /\ executed = <<trim(in_from)>>

(***************************************************************************)
(* The recall list when it is full.  The session starts after the user     *)
(* has entered RecallFill numbered statements, 1; 2; 3; and so on, and has *)
(* cleared the screen with Ctrl+L; the user then types the oldest and the  *)
(* newest of them, a console command and a new statement and presses       *)
(* Enter.                                                                  *)
(***************************************************************************)
RecallFill == 49

numbered(i) ==
  (IF i >= 10 THEN <<ToString(i \div 10)>> ELSE <<>>) \o <<ToString(i % 10), ";">>

\* the state after construction, and after the engine became ready
Fresh ==
  [buffer |-> <<>>, currentLine |-> <<>>, history |-> <<>>, commandHistory |-> <<>>,
   historyIndex |-> -1, aiEnabled |-> TRUE, learningMode |-> TRUE,
   pendingDangerousCommand |-> <<>>, isMultiLine |-> FALSE, idCounter |-> 0,
   isReady |-> FALSE, executed |-> <<>>, db |-> <<>>]
Ready ==
  addEntry([Fresh EXCEPT !.isReady = TRUE], "info",
           <<"MySQL 8.0 Command Line Client - AI Enhanced">>)

\* The state after the first n numbered statements were typed and entered and
\* the screen was cleared: each statement made two entries, its echo and the
\* answer of the engine, after the one entry of the welcome; the statements are
\* in the recall list, the newest first, and went to the engine in their order.
enteredThenCleared(n) ==
  [Ready EXCEPT !.history = <<>>,
                !.idCounter = 1 + 2 * n,
                !.commandHistory = SubSeq([k \in 1..n |-> numbered(n + 1 - k)], 1, n),
                !.executed = SubSeq([k \in 1..n |-> numbered(k)], 1, n),
                !.db = SubSeq([k \in 1..n |-> numbered(k)], 1, n)]

Filled == enteredThenCleared(RecallFill)

InitFilled ==
  /\ buffer = Filled.buffer
  /\ currentLine = Filled.currentLine
  /\ history = Filled.history
  /\ commandHistory = Filled.commandHistory
  /\ historyIndex = Filled.historyIndex
  /\ aiEnabled = Filled.aiEnabled
  /\ learningMode = Filled.learningMode
  /\ pendingDangerousCommand = Filled.pendingDangerousCommand
  /\ isMultiLine = Filled.isMultiLine
  /\ idCounter = Filled.idCounter
  /\ isReady = Filled.isReady
  /\ executed = Filled.executed
  /\ db = Filled.db
  /\ explainer = ExplainerInit

\* Enter, once the session has created the entries of Filled: it runs for
\* MaxEntries entries more
EnterFilled(results) ==
  /\ IF isCommandComplete(joinLines(Append(buffer, currentLine)))
     THEN idCounter < Filled.idCounter + MaxEntries
     ELSE Len(buffer) < MaxBuffer
  /\ \E result \in results : Becomes(handleEnter(Cur, result))

in_zero == <<"0",";">>
FilledKeys == {numbered(1), numbered(RecallFill), in_help, in_zero}

NextFilled ==
  \/ \E text \in FilledKeys : OnChange(text)
  \/ EnterFilled({ResultOK})

SpecFilled == InitFilled /\ [][NextFilled]_vars

\* C13: the recall list holds no text twice and at most HistoryCap texts, the
\* most recent first.  A step that dispatches a text puts it first, whether it
\* was in the list or not; the texts that were in the list follow it in the
\* order they had; and none of them is dropped unless the list would exceed
\* HistoryCap, in which case the last, the oldest, is.
C13_RecallList ==
  /\ [](/\ Len(commandHistory) <= HistoryCap
        /\ \A j, k \in 1..Len(commandHistory) :
             j # k => commandHistory[j] # commandHistory[k])
  /\ [][Dispatch =>
          LET others == SelectSeq(commandHistory, LAMBDA c : c # Submitted)
              n == Len(commandHistory')
          IN /\ n = Min({HistoryCap, Len(others) + 1})
             /\ commandHistory'[1] = Submitted
             /\ Tail(commandHistory') = SubSeq(others, 1, n - 1)]_vars

\* the list was full, a new statement was dispatched and is first, and the
\* oldest statement is gone
C13_Witness ==
  /\ Len(commandHistory) = HistoryCap
  /\ commandHistory[1] = in_zero
  /\ commandHistory[2] = in_help
  /\ commandHistory[HistoryCap] = numbered(2)
  /\ numbered(1) \notin Range(commandHistory)

(***************************************************************************)
(* The pipeline and the console commands                                   *)
(***************************************************************************)
\* the lower-cased texts that are console commands
IsBuiltin(reply) ==
  \/ reply \in {<<"h","e","l","p">>, <<"c","l","e","a","r">>, <<"r","e","s","e","t">>,
                <<"t","a","b","l","e","s">>, <<"a","i"," ","o","n">>,
                <<"a","i"," ","o","f","f">>, <<"l","e","a","r","n"," ","o","n">>,
                <<"l","e","a","r","n"," ","o","f","f">>}
  \/ (Len(reply) >= 4 /\ SubSeq(reply, 1, 4) = <<"d","e","s","c">>)

\* no entry a step appends is a note of the assistant or a warning
NoAssistantEntry == \A k \in 1..Len(NewEntries) : NewEntries[k].type \notin {"ai", "warning"}

\* C15, as the claim states it: with aiEnabled off, a dispatched text that is no
\* console command goes to executeSQL as it is, trimmed; the step appends no
\* entry of the assistant and no warning and sets no pending statement.
C15_OffRunsAsTyped ==
  [][(~aiEnabled /\ ~IsBuiltin(Reply) /\ Dispatch)
       => /\ executed' = Append(executed, Submitted)
          /\ pendingDangerousCommand' \in {pendingDangerousCommand, <<>>}
          /\ Appends
          /\ NoAssistantEntry]_vars

\* C15, amended: the same of a dispatched text that is no console command and
\* is not an answer (yes, y, no, n) given while a statement is pending; the
\* pending statement, if there is one, stays as it is.
C15_OffRunsAsTypedUnlessAnswer ==
  [][(/\ ~aiEnabled
      /\ ~IsBuiltin(Reply)
      /\ ~(pendingDangerousCommand # <<>> /\ Reply \in Answers)
      /\ Dispatch)
       => /\ executed' = Append(executed, Submitted)
          /\ pendingDangerousCommand' = pendingDangerousCommand
          /\ Appends
          /\ NoAssistantEntry]_vars

\* with the AI off the DROP was dispatched: it went to the engine, nothing is
\* pending and the transcript holds no warning
C15_Witness ==
  /\ ~aiEnabled
  /\ commandHistory = <<in_drop>>
  /\ executed = <<in_drop>>
  /\ pendingDangerousCommand = <<>>
  /\ \A k \in 1..Len(history) : history[k].type \notin {"ai", "warning"}

\* the console commands, as a user may type them
BuiltinTexts == {in_help, in_clear, in_reset, in_tables, in_desc, in_describe,
                 in_ai_on, in_ai_off, in_learn_on, in_learn_off}

\* t is the state a handler made of the present one, and in it the engine was
\* not called, the pending statement is the one there was, and no entry made
\* since is a note of the assistant or a warning
KeptOut(t) ==
  /\ t.executed = executed
  /\ t.pendingDangerousCommand = pendingDangerousCommand
  /\ \A k \in 1..Len(t.history) :
       t.history[k].id >= idCounter => t.history[k].type \notin {"ai", "warning"}

\* C16: a console command never reaches the pipeline or the engine.  In every
\* state, whatever is pending and whatever the engine would answer, dispatching
\* any of the console commands calls executeSQL with nothing, appends no entry
\* of the assistant and no warning, and leaves pendingDangerousCommand as it is.
C16_BuiltinsKeptOut ==
  \A text \in BuiltinTexts : \A result \in Results :
    KeptOut(executeCommand(Cur, trim(text), result))

\* help was dispatched while the DROP was pending: the DROP is still pending
\* and nothing went to the engine
C16_Witness ==
  /\ commandHistory = <<in_help, in_drop>>
  /\ pendingDangerousCommand = <<in_drop>>
  /\ executed = <<>>
  /\ history[Len(history)].type = "info"

(***************************************************************************)
(* The three stages of the pipeline as functions of the text: the user     *)
(* types Vietnamese phrases, statements with typing errors and statements  *)
(* the danger rules match, and presses Enter.                              *)
(***************************************************************************)
PipelineKeys == {in_products, in_find, in_count, in_typos, in_jionset,
                 in_spaced_drop, in_update}

NextPipeline ==
  \/ EngineReady
  \/ \E text \in PipelineKeys : OnChange(text)
  \/ Enter({ResultOK})

SpecPipeline == Init /\ [][NextPipeline]_vars

\* the template with every $i replaced by group i of the match m of text, all
\* at once
RECURSIVE positional(_, _, _, _, _)
positional(template, j, text, m, n) ==
  IF j > Len(template) THEN <<>>
  ELSE IF template[j] = "$" /\ j < Len(template)
          /\ \E i \in 1..n : template[j + 1] = ToString(i)
  THEN GroupText(text, m, CHOOSE i \in 1..n : template[j + 1] = ToString(i))
       \o positional(template, j + 2, text, m, n)
  ELSE <<template[j]>> \o positional(template, j + 1, text, m, n)

\* the rules of vietnameseToSQL whose pattern is found in text
Translating(text) ==
  {k \in 1..Len(vietnameseToSQL) : RegTest(vietnameseToSQL[k].pattern, text)}

\* C17: translation is first-match and happens at most once.  For the typed
\* text, convertVietnameseToSQL answers null when no rule matches; otherwise it
\* answers the template of the first rule, in the declared order, that matches,
\* with each $i replaced by the text of capture group i, followed by ; and the
\* phrase "lay tat ca tu products" (with its diacritics) becomes exactly
\* SELECT * FROM products;
C17_Translation ==
  /\ IF Translating(currentLine) = {}
     THEN convertVietnameseToSQL(currentLine) = <<>>
     ELSE LET rule == vietnameseToSQL[Min(Translating(currentLine))]
          IN convertVietnameseToSQL(currentLine) =
               <<positional(rule.template, 1, currentLine,
                            RegExec(rule.pattern, currentLine, 1), rule.groups) \o <<";">>>>
  /\ currentLine = in_products
       => convertVietnameseToSQL(currentLine)
            = <<<<"S","E","L","E","C","T"," ","*"," ","F","R","O","M"," ",
                  "p","r","o","d","u","c","t","s",";">>>>

\* C18: typo correction is idempotent: correcting the corrected text changes
\* nothing and reports no correction.
C18_Idempotent ==
  fixSQLTypos(fixSQLTypos(currentLine).fixed)
    = [fixed |-> fixSQLTypos(currentLine).fixed, corrections |-> <<>>]

\* the text after the first k rules of sqlCorrections were tried in their order
RECURSIVE textAfter(_, _)
textAfter(sql, k) ==
  IF k = 0 THEN sql
  ELSE LET before == textAfter(sql, k - 1)
       IN IF RegTest(sqlCorrections[k].pattern, before)
          THEN RegReplaceAll(sqlCorrections[k].pattern, before, sqlCorrections[k].fix)
          ELSE before

\* the rules whose pattern is found in the text as corrected so far
Fired(sql) ==
  {k \in 1..Len(sqlCorrections) : RegTest(sqlCorrections[k].pattern, textAfter(sql, k - 1))}

\* the j-th smallest number of a set of numbers
Nth(S, j) == CHOOSE k \in S : Cardinality({i \in S : i < k}) = j - 1

\* C19: corrections are cumulative.  Every rule whose pattern is found in the
\* text as corrected so far is applied to all the places it is found at, so
\* that it is found nowhere in the text once it was applied; the text returned
\* is the text after the last rule; and the list returned holds the message of
\* each rule that was applied, once, in the declared order.
C19_Cumulative ==
  LET result == fixSQLTypos(currentLine)
      fired == Fired(currentLine)
  IN /\ result.fixed = textAfter(currentLine, Len(sqlCorrections))
     /\ \A k \in fired : ~RegTest(sqlCorrections[k].pattern, textAfter(currentLine, k))
     /\ Len(result.corrections) = Cardinality(fired)
     /\ \A j \in 1..Cardinality(fired) :
          result.corrections[j] = sqlCorrections[Nth(fired, j)].message

\* the statement with three kinds of typing errors, one of them twice, was
\* dispatched: the engine got the text with all four places corrected
C19_Witness ==
  /\ commandHistory = <<in_typos>>
  /\ executed = <<<<"S","E","L","E","C","T"," ","*"," ","F","R","O","M"," ","t"," ",
                    "W","H","E","R","E"," ","F","R","O","M"," ","=", " ","1",";">>>>

\* the danger rules whose pattern matches the text
Matching(text) ==
  {k \in 1..Len(dangerousCommands) : RegTest(dangerousCommands[k].pattern, text)}

OutcomeKeys == {in_star}
OutcomeResults == Results \cup {ResultErrorOther}

NextOutcome ==
  \/ \E text \in OutcomeKeys : OnChange(text)
  \/ ToggleAI
  \/ Enter(OutcomeResults)

SpecOutcome == Init /\ [][NextOutcome]_vars

\* The same statement with the learning mode switched as well as the AI, and an
\* engine that answers with rows or with an error.
NextTips ==
  \/ \E text \in OutcomeKeys : OnChange(text)
  \/ ToggleAI
  \/ ToggleLearning
  \/ Enter({ResultRows, ResultError})

SpecTips == Init /\ [][NextTips]_vars

(***************************************************************************)
(* A statement of level medium: the user types an UPDATE without WHERE and *)
(* a DROP, switches the AI and presses Enter.                              *)
(***************************************************************************)
MediumKeys == {in_update, in_drop}

NextMedium ==
  \/ \E text \in MediumKeys : OnChange(text)
  \/ ToggleAI
  \/ Enter({ResultOK, ResultError})

SpecMedium == Init /\ [][NextMedium]_vars

\* A step that dispatches the typed statement and in which the engine, if it is
\* called, answers result: a step of Enter or Ctrl+Enter that leaves the input
\* empty and makes an entry, the echo (the quicker tests come first).
Submits(result) ==
  /\ currentLine' = <<>>
  /\ buffer' = <<>>
  /\ idCounter' > idCounter
  /\ \/ Becomes(handleEnter(Cur, result))
     \/ Becomes(handleCtrlEnter(Cur, result))

\* the text the pipeline makes of a statement: translated, then corrected
PipelineText(text) ==
  fixSQLTypos(IF convertVietnameseToSQL(text) = <<>> THEN text
              ELSE convertVietnameseToSQL(text)[1]).fixed

\* the first danger rule that matches sql is of level medium
IsMedium(sql) ==
  /\ checkDangerousCommand(sql) # <<>>
  /\ checkDangerousCommand(sql)[1].level = "medium"

\* the entries that tell the outcome of a statement
IsOutcome(entry) == entry.type \in {"error", "result", "info"}

\* the step appends the warning of the rule once, before the outcome, calls
\* executeSQL with sql and holds nothing new
WarnedAndRun(sql, rule) ==
  /\ executed' = Append(executed, sql)
  /\ pendingDangerousCommand' = pendingDangerousCommand
  /\ Appends
  /\ \E k \in 1..Len(NewEntries) :
       /\ NewEntries[k].type = "warning"
       /\ NewEntries[k].content = rule.warning
       /\ \A j \in 1..Len(NewEntries) :
            /\ NewEntries[j].type = "warning" => j = k
            /\ IsOutcome(NewEntries[j]) => j > k
       /\ \E j \in (k + 1)..Len(NewEntries) : IsOutcome(NewEntries[j])

\* C21, as the claim states it: a statement whose first matching danger rule is
\* of level medium gets the warning entry and is executed in the step that
\* dispatches it; nothing is held for it.
C21_MediumWarnsAndRuns ==
  [][(currentLine' = <<>> /\ idCounter' > idCounter)
       => LET sql == PipelineText(Submitted)
          IN (IsMedium(sql) /\ \E result \in OutcomeResults : Submits(result))
               => WarnedAndRun(sql, checkDangerousCommand(sql)[1])]_vars

\* C21, amended: the same while aiEnabled is on.
C21_MediumWarnsAndRunsWhenAIOn ==
  [][(currentLine' = <<>> /\ idCounter' > idCounter /\ aiEnabled)
       => LET sql == PipelineText(Submitted)
          IN (IsMedium(sql) /\ \E result \in OutcomeResults : Submits(result))
               => WarnedAndRun(sql, checkDangerousCommand(sql)[1])]_vars

\* with the AI on the UPDATE was dispatched: it was warned of and went to the
\* engine, and nothing is pending
C21_Witness ==
  /\ aiEnabled
  /\ commandHistory = <<in_update>>
  /\ executed = <<in_update>>
  /\ pendingDangerousCommand = <<>>
  /\ \E k \in 1..Len(history) :
       history[k].type = "warning" /\ history[k].content = dangerousCommands[5].warning

\* the outcome entry runSQL makes of a result
OutcomeOf(entry, result) ==
  IF result.error # <<>>
  THEN entry.type = "error" /\ entry.content = <<"ERROR: ">> \o result.error
  ELSE IF Len(result.columns) > 0 /\ Len(result.rows) > 0
  THEN /\ entry.type = "result"
       /\ entry.table = <<[columns |-> result.columns, rows |-> result.rows]>>
       /\ entry.content[1] = ToString(Len(result.rows))
  ELSE /\ entry.type = "info"
       /\ entry.content[1] = "Query OK, "
       /\ entry.content[2] = ToString(result.affectedRows)

\* C22: each call of executeSQL appends exactly one outcome entry: the error
\* entry with the engine's message when the result has an error, the result
\* entry with all columns and rows when it has columns and rows, the info entry
\* with the number of rows affected otherwise.  After the error entry comes
\* nothing, or one entry of the assistant, the hint; the hint comes only if
\* aiEnabled is on.
C22_ResultClassification ==
  [][\A result \in OutcomeResults :
       (currentLine' = <<>> /\ executed' # executed /\ Submits(result))
         => /\ Appends
            /\ Len(executed') = Len(executed) + 1
            /\ Cardinality({k \in 1..Len(NewEntries) : IsOutcome(NewEntries[k])}) = 1
            /\ \A k \in 1..Len(NewEntries) :
                 IsOutcome(NewEntries[k])
                   => /\ OutcomeOf(NewEntries[k], result)
                      /\ result.error # <<>>
                           => /\ k >= Len(NewEntries) - 1
                              /\ k < Len(NewEntries)
                                   => /\ aiEnabled
                                      /\ NewEntries[k + 1].type = "ai"
                                      /\ NewEntries[k + 1].content = getErrorHelp(result.error)]_vars

\* with the AI off the engine answered with the error there is a hint for: the
\* error entry is the last entry
C22_Witness ==
  /\ ~aiEnabled
  /\ executed # <<>>
  /\ history # <<>>
  /\ history[Len(history)].type = "error"
  /\ history[Len(history)].content = <<"ERROR: ">> \o ResultError.error

\* the entry with the optimization tips
IsTips(entry) == entry.type = "ai" /\ entry.content[1] = "Gợi ý tối ưu:"

\* C23: the tips come only when learningMode and aiEnabled are both on and the
\* statement was executed without error, and they come after the outcome: the
\* entry before the tips is the result or the info entry of the statement, and
\* executeSQL was called in the step.
C23_TipsAfterOutcome ==
  [][\A result \in OutcomeResults :
       (currentLine' = <<>> /\ Submits(result))
         => \A k \in 1..Len(NewEntries) :
              IsTips(NewEntries[k])
                => /\ learningMode
                   /\ aiEnabled
                   /\ result.error = <<>>
                   /\ Len(executed') = Len(executed) + 1
                   /\ k > 1
                   /\ NewEntries[k - 1].type \in {"result", "info"}
                   /\ OutcomeOf(NewEntries[k - 1], result)]_vars

\* the SELECT * was executed with the AI and the learning mode on: the tips are
\* the last entry and the rows the entry before it
C23_Witness ==
  /\ executed = <<in_star>>
  /\ Len(history) >= 2
  /\ IsTips(history[Len(history)])
  /\ history[Len(history) - 1].type = "result"

\* C26: the ready gate.  While isReady is false the console calls neither
\* executeSQL nor resetDB: a statement dispatched before the engine is ready is
\* not executed.
C26_ReadyGate == [][(executed' # executed \/ db' # db) => isReady]_vars

(***************************************************************************)
(* Describing tables: the user types desc of a table there is, of a name   *)
(* there is no table for and of a name every object inherits, and a        *)
(* SELECT the engine may answer with an error, and presses Enter or        *)
(* Ctrl+Enter.                                                             *)
(***************************************************************************)
DescribeKeys == {in_desc, in_describe, in_desc_ctor, in_star}

NextDescribe ==
  \/ \E text \in DescribeKeys : OnChange(text)
  \/ CtrlEnter({ResultOK, ResultError})
  \/ Enter({ResultOK, ResultError})

SpecDescribe == Init /\ [][NextDescribe]_vars

\* A step that submits the typed statement, the engine answering result if it
\* is called: a step of Enter or Ctrl+Enter that makes an entry, the echo.
SubmitStep(result) ==
  /\ idCounter' > idCounter
  /\ \/ Becomes(handleEnter(Cur, result))
     \/ Becomes(handleCtrlEnter(Cur, result))

\* the statement is desc or describe of a name
IsDescribe(text) ==
  \/ startsWith(toLowerCase(text), kw_desc)
  \/ startsWith(toLowerCase(text), kw_describe)

\* the entries of the step that are not the echo of the input
Output == SelectSeq(NewEntries, LAMBDA entry : entry.type \notin {"input", "continuation"})

\* C24: no error is fatal.  After a step that submits a statement the input is
\* empty again (buffer and currentLine), and if the engine was called and
\* answered with an error, or the statement is desc of a name that is no table,
\* the step has appended an error entry.
C24_NoErrorIsFatal ==
  [][\A result \in {ResultOK, ResultError} :
       SubmitStep(result)
         => /\ currentLine' = <<>>
            /\ buffer' = <<>>
            /\ Appends
            /\ \/ executed' # executed /\ result.error # <<>>
               \/ /\ IsDescribe(Submitted)
                  /\ toLowerCase(descTableName(Submitted)) \notin tableInfo
               => \E k \in 1..Len(Output) : Output[k].type = "error"]_vars

\* C25: desc or describe of a name, in any case and with or without the
\* semicolon, appends exactly one entry besides the echo, the info entry if the
\* name is one of the four tables and the error entry if it is not, and never
\* calls executeSQL.
C25_DescribeAnswers ==
  [][\A result \in {ResultOK, ResultError} :
       (SubmitStep(result) /\ IsDescribe(Submitted))
         => /\ executed' = executed
            /\ Len(Output) = 1
            /\ Output[1].type = IF toLowerCase(descTableName(Submitted)) \in tableInfo
                                THEN "info" ELSE "error"]_vars

(***************************************************************************)
(* Arrow keys while lines are buffered: the user types an incomplete       *)
(* SELECT and a statement, submits with Enter and Ctrl+Enter and presses   *)
(* the arrow keys.                                                         *)
(***************************************************************************)
ArrowKeys == {in_select, in_from}

NextArrows ==
  \/ \E text \in ArrowKeys : OnChange(text)
  \/ ArrowUp
  \/ ArrowDown
  \/ CtrlEnter({ResultOK})
  \/ Enter({ResultOK})

SpecArrows == Init /\ [][NextArrows]_vars

\* C27: whenever the buffer is not empty, Arrow Up and Arrow Down leave
\* currentLine and historyIndex as they are.
C27_ArrowsKeepBufferedInput ==
  buffer # <<>>
    => /\ handleArrowUp(Cur).currentLine = currentLine
       /\ handleArrowUp(Cur).historyIndex = historyIndex
       /\ handleArrowDown(Cur).currentLine = currentLine
       /\ handleArrowDown(Cur).historyIndex = historyIndex

\* a line is buffered while the recall cursor is on the newest entry of the
\* recall list: without the buffer, Arrow Down would empty the input
C27_Witness ==
  /\ buffer # <<>>
  /\ historyIndex = 0
  /\ commandHistory # <<>>

\* C28: the ids of the entries are unique and strictly increasing over the
\* whole session.  In every state the ids in the transcript increase from one
\* entry to the next and are below the counter; and every entry a step brings
\* into the transcript has an id no entry had before, at or above the counter
\* of the state before, whether or not the step or an earlier one emptied the
\* transcript.
C28_IdsIncrease ==
  /\ [](\A k \in 1..Len(history) :
          /\ history[k].id < idCounter
          /\ k > 1 => history[k - 1].id < history[k].id)
  /\ [][\A k \in 1..Len(history') :
          \/ \E j \in 1..Len(history) : history'[k] = history[j]
          \/ history'[k].id >= idCounter]_vars

\* the transcript was emptied with Ctrl+L and has an entry again, and no command
\* clear was dispatched
C28_Witness ==
  /\ Len(history) = 1
  /\ history[1].id > 1
  /\ in_clear \notin Range(commandHistory)

(***************************************************************************)
(* Statements of several lines: the user types an incomplete SELECT and a  *)
(* FROM, clicks the quick examples and presses Enter or Ctrl+Enter.        *)
(***************************************************************************)
EchoKeys == {in_select, in_from}

NextEcho ==
  \/ \E text \in EchoKeys : OnChange(text)
  \/ QuickExample
  \/ CtrlEnter({ResultOK})
  \/ Enter({ResultOK})

SpecEcho == Init /\ [][NextEcho]_vars

\* the physical lines of a text: what lies between its line feeds
RECURSIVE PhysicalLines(_)
PhysicalLines(text) ==
  LET feeds == {k \in 1..Len(text) : text[k] = "\n"}
  IN IF feeds = {} THEN <<text>>
     ELSE LET k == CHOOSE i \in feeds : \A j \in feeds : i <= j
          IN <<SubSeq(text, 1, k - 1)>> \o PhysicalLines(SubSeq(text, k + 1, Len(text)))

\* the entries of the step that echo the input
Echo == SelectSeq(NewEntries, LAMBDA entry : entry.type \in {"input", "continuation"})

\* C29: when a statement of several physical lines is submitted, with Enter or
\* with Ctrl+Enter, the step appends one echo entry for each physical line of
\* the statement, in order (white space at the ends of a line apart), the first
\* of type input and the others of type continuation, and the echo entries come
\* before every other entry of the step.
C29_EchoPerLine ==
  [][LET lines == PhysicalLines(Submitted)
     IN (Len(lines) > 1 /\ SubmitStep(ResultOK))
          => /\ Appends
             /\ Len(Echo) = Len(lines)
             /\ \A k \in 1..Len(Echo) :
                  /\ NewEntries[k] = Echo[k]
                  /\ trim(Echo[k].content) = trim(lines[k])
                  /\ Echo[k].type = IF k = 1 THEN "input" ELSE "continuation"]_vars

(***************************************************************************)
(* Cancelling: the user types an incomplete SELECT and a FROM, presses     *)
(* Enter, on an empty line too, and cancels with Ctrl+C.                   *)
(***************************************************************************)
CancelKeys == {in_select, in_from}

NextCancel ==
  \/ \E text \in CancelKeys : OnChange(text)
  \/ CtrlC
  \/ Enter({ResultOK})

SpecCancel == Init /\ [][NextCancel]_vars

\* a step of Ctrl+C that has something to discard
CancelStep ==
  /\ buffer # <<>> \/ currentLine # <<>>
  /\ Becomes(handleCtrlC(Cur))

\* with nothing buffered and nothing typed, Ctrl+C appends nothing
NothingToCancel ==
  (buffer = <<>> /\ currentLine = <<>>) => handleCtrlC(Cur).history = history

\* C30, as the claim states it: Ctrl+C echoes every discarded line, the
\* buffered lines and the current line, as an info entry, and the input is
\* empty after it; with nothing buffered and nothing typed it appends nothing.
C30_CancelEchoesAsInfo ==
  /\ []NothingToCancel
  /\ [][CancelStep
          => LET lines == Append(buffer, currentLine)
             IN /\ Appends
                /\ buffer' = <<>>
                /\ currentLine' = <<>>
                /\ Len(NewEntries) >= Len(lines)
                /\ \A k \in 1..Len(lines) :
                     /\ NewEntries[k].type = "info"
                     /\ NewEntries[k].content = lines[k]]_vars

\* C30, amended: Ctrl+C echoes every discarded line that is not blank, the
\* first as an entry of type input and the others of type continuation, and
\* then appends one info entry, ^C; the input is empty after it.  With nothing
\* buffered and nothing typed it appends nothing.
C30_CancelEchoesAsInput ==
  /\ []NothingToCancel
  /\ [][CancelStep
          => LET lines == SelectSeq(Append(buffer, currentLine), LAMBDA line : line # <<>>)
             IN /\ Appends
                /\ buffer' = <<>>
                /\ currentLine' = <<>>
                /\ Len(NewEntries) = Len(lines) + 1
                /\ \A k \in 1..Len(lines) :
                     /\ NewEntries[k].type = IF k = 1 THEN "input" ELSE "continuation"
                     /\ NewEntries[k].content = lines[k]
                /\ NewEntries[Len(lines) + 1].type = "info"
                /\ NewEntries[Len(lines) + 1].content = <<"^C">>]_vars

\* two lines were cancelled: the transcript ends with the echo of the SELECT, the
\* echo of the FROM and ^C, and the input is empty
C30_Witness ==
  /\ buffer = <<>>
  /\ currentLine = <<>>
  /\ commandHistory = <<>>
  /\ Len(history) >= 3
  /\ history[Len(history) - 2].type = "input"
  /\ history[Len(history) - 2].content = in_select
  /\ history[Len(history) - 1].type = "continuation"
  /\ history[Len(history)].content = <<"^C">>

(***************************************************************************)
(* renderTable: the grid the transcript shows for the table of an entry    *)
(***************************************************************************)
\* table.rows.slice(0, 25), table.rows.length > 25
DisplayCeiling == 25

\* Math.max(col.length, maxDataWidth, 4)
WidthFloor == 4

kw_NULL == <<"N","U","L","L">>

\* String.prototype.repeat and padEnd, for one-character fillers
repeat(c, n) == [i \in 1..n |-> c]
padEnd(text, n) == text \o repeat(" ", n - Len(text))

\* row[i]: undefined past the end of the row
cellAt(row, i) == IF i <= Len(row) THEN <<row[i]>> ELSE <<>>

\* cellText taking every falsy cell for null: String(cell || 'NULL')
cellTextFalsy(cell) ==
  IF cell = <<>> \/ cell[1].null \/ cell[1].text = <<>> \/ cell[1].text = <<"0">>
  THEN kw_NULL ELSE cell[1].text

\* String(cell ?? 'NULL'): the text of a cell, null and undefined being NULL
cellText(cell) == IF cell = <<>> \/ cell[1].null THEN kw_NULL ELSE cell[1].text

\* colWidths: Math.max of nothing is -Infinity
colWidths(table) ==
  [i \in 1..Len(table.columns) |->
     Max({Len(table.columns[i]), WidthFloor}
         \cup {Len(cellText(cellAt(table.rows[k], i))) : k \in 1..Len(table.rows)})]

\* Array.prototype.join with the separator c, between bars
RECURSIVE joinWith(_, _)
joinWith(parts, c) ==
  IF parts = <<>> THEN <<>>
  ELSE IF Len(parts) = 1 THEN parts[1]
  ELSE parts[1] \o <<c>> \o joinWith(Tail(parts), c)

separatorOf(widths) ==
  <<"+">> \o joinWith([i \in 1..Len(widths) |-> repeat("-", widths[i] + 2)], "+") \o <<"+">>

headerOf(table, widths) ==
  <<"|">> \o joinWith([i \in 1..Len(table.columns) |->
                         <<" ">> \o padEnd(table.columns[i], widths[i]) \o <<" ">>], "|")
          \o <<"|">>

\* a cell past the last column is padded to undefined, that is not at all
rowLine(row, widths) ==
  <<"|">> \o joinWith([i \in 1..Len(row) |->
                         <<" ">> \o padEnd(cellText(<<row[i]>>),
                                           IF i <= Len(widths) THEN widths[i] ELSE 0)
                                 \o <<" ">>], "|")
          \o <<"|">>

\* the marker shown from the ceiling on: table.rows.length >= 25
markerFromCeiling(rows) ==
  IF Len(rows) >= DisplayCeiling
  THEN <<<<"... và ", ToString(Len(rows) - DisplayCeiling), " hàng nữa">>>>
  ELSE <<>>

\* table.rows.length > 25 && ... và {table.rows.length - 25} hàng nữa
markerOf(rows) ==
  IF Len(rows) > DisplayCeiling
  THEN <<<<"... và ", ToString(Len(rows) - DisplayCeiling), " hàng nữa">>>>
  ELSE <<>>

renderTable(table) ==
  [separator |-> separatorOf(colWidths(table)),
   header |-> headerOf(table, colWidths(table)),
   rows |-> [k \in 1..(IF Len(table.rows) > DisplayCeiling THEN DisplayCeiling
                       ELSE Len(table.rows)) |->
               rowLine(table.rows[k], colWidths(table))],
   marker |-> markerOf(table.rows)]

(***************************************************************************)
(* Rendering: the user runs a SELECT * and the engine answers with tables  *)
(* of one or two rows, with null, empty and zero cells, and with tables    *)
(* about as long as the display ceiling.                                   *)
(***************************************************************************)
\* how many rows beyond the ceiling the long tables have
MaxOver == 2

col_id == <<"i","d">>
col_name == <<"n","a","m","e">>
col_n == <<"n">>
col_department == <<"d","e","p","a","r","t","m","e","n","t">>

\* String(k) for a number below 100
decimal(k) == (IF k >= 10 THEN <<ToString(k \div 10)>> ELSE <<>>) \o <<ToString(k % 10)>>

RenderRows ==
  {<<Cell(<<"1">>), Cell(<<"A","n","n">>)>>,
   <<Cell(<<"2">>), NullCell>>,
   <<Cell(<<"0">>), Cell(<<>>)>>,
   <<NullCell, Cell(<<"A","l","e","x","a","n","d","e","r">>)>>}

longRows(n) == [k \in 1..n |-> <<Cell(decimal(k))>>]

RenderTables ==
  {[columns |-> <<col_id, col_name>>, rows |-> rows] :
     rows \in {<<r>> : r \in RenderRows}
                \cup {pair \in RenderRows \X RenderRows : pair[1] # pair[2]}}
  \cup {[columns |-> <<col_n, col_department>>, rows |-> <<r>>] : r \in RenderRows}
  \cup {[columns |-> <<col_id>>, rows |-> longRows(n)] :
          n \in (DisplayCeiling - 1)..(DisplayCeiling + MaxOver)}

resultOf(table) ==
  [error |-> <<>>, columns |-> table.columns, rows |-> table.rows,
   affectedRows |-> 0, executionTime |-> 1]

RenderResults == {resultOf(table) : table \in RenderTables}

NextRender ==
  \/ OnChange(in_star)
  \/ Enter(RenderResults)

SpecRender == Init /\ [][NextRender]_vars

\* the tables of the transcript
Tables == {history[k].table[1] : k \in {j \in 1..Len(history) : history[j].table # <<>>}}

\* what a cell shows: NULL for null, its text otherwise
TextOf(cell) == IF cell.null THEN kw_NULL ELSE cell.text

\* n is the width of column i: the largest of the length of the header, the
\* lengths of what the cells of the column show, and 4
IsWidth(n, table, i) ==
  LET lengths == {Len(table.columns[i]), 4}
                   \cup {Len(TextOf(table.rows[k][i])) : k \in 1..Len(table.rows)}
  IN n \in lengths /\ \A m \in lengths : m <= n

\* where the field of column i begins in a line of the grid, after its bar
RECURSIVE FieldStart(_, _)
FieldStart(widths, i) == IF i = 1 THEN 2 ELSE FieldStart(widths, i - 1) + widths[i - 1] + 3

\* the field of column i in a line holds text: a blank, text, blanks up to the
\* width, a blank, between two bars
Holds(line, widths, i, text) ==
  LET from == FieldStart(widths, i)
      to == from + widths[i] + 1
  IN /\ to < Len(line)
     /\ line[from - 1] = "|"
     /\ line[to + 1] = "|"
     /\ line[from] = " "
     /\ SubSeq(line, from + 1, from + Len(text)) = text
     /\ \A j \in (from + Len(text) + 1)..to : line[j] = " "

\* C31: in the grid of every table in the transcript each column has its own
\* width, the largest of the header's length, the longest cell text and 4, a
\* null cell counting and showing as NULL, and 0 and the empty text as
\* themselves; header and rows are laid out in these widths.
C31_ColumnWidths ==
  \A table \in Tables :
    LET widths == colWidths(table)
        grid == renderTable(table)
    IN /\ \A i \in 1..Len(table.columns) :
            /\ IsWidth(widths[i], table, i)
            /\ Holds(grid.header, widths, i, table.columns[i])
            /\ \A k \in 1..Len(grid.rows) :
                 Holds(grid.rows[k], widths, i, TextOf(table.rows[k][i]))
       /\ Len(grid.header) = FieldStart(widths, Len(widths)) + widths[Len(widths)] + 2
       /\ \A k \in 1..Len(grid.rows) : Len(grid.rows[k]) = Len(grid.header)

\* the table of the claim is in the transcript, and its second row shows 2 and
\* NULL in columns of width 4
C31_Witness ==
  \E table \in Tables :
    /\ table = [columns |-> <<col_id, col_name>>,
                rows |-> <<<<Cell(<<"1">>), Cell(<<"A","n","n">>)>>, <<Cell(<<"2">>), NullCell>>>>]
    /\ renderTable(table).rows[2]
         = <<"|"," ","2"," "," "," "," ","|"," ","N","U","L","L"," ","|">>

\* C32: the grid of a table of more than 25 rows has its first 25 rows and the
\* marker with the number of rows beyond 25; the grid of a table of 25 rows or
\* fewer has all rows and no marker; and the entry of a result keeps the table
\* as the engine returned it, with as many rows as its text counts.
C32_RowTruncation ==
  /\ \A table \in Tables :
       LET grid == renderTable(table)
           n == Len(table.rows)
       IN /\ \A k \in 1..Len(grid.rows) :
               grid.rows[k] = rowLine(table.rows[k], colWidths(table))
          /\ n > 25 => /\ Len(grid.rows) = 25
                       /\ grid.marker = <<<<"... và ", ToString(n - 25), " hàng nữa">>>>
          /\ n <= 25 => /\ Len(grid.rows) = n
                        /\ grid.marker = <<>>
  /\ \A k \in 1..Len(history) :
       history[k].type = "result"
         => /\ history[k].table # <<>>
            /\ history[k].table[1] \in RenderTables
            /\ history[k].content[1] = ToString(Len(history[k].table[1].rows))

\* a table of 26 rows is in the transcript: its grid has 25 rows and the marker
\* for 1 row
C32_Witness ==
  \E table \in Tables :
    /\ Len(table.rows) = DisplayCeiling + 1
    /\ Len(renderTable(table).rows) = DisplayCeiling
    /\ renderTable(table).marker = <<<<"... và ", "1", " hàng nữa">>>>

(***************************************************************************)
(* The order of the stages: the user types a DELETE with a typo and the    *)
(* answers, switches the AI and presses Enter.                             *)
(***************************************************************************)
StageKeys == {in_delte, in_yes, in_no}

NextStages ==
  \/ \E text \in StageKeys : OnChange(text)
  \/ ToggleAI
  \/ Enter({ResultOK})

SpecStages == Init /\ [][NextStages]_vars

\* the first danger rule that matches sql is of level high
IsHigh(sql) ==
  /\ checkDangerousCommand(sql) # <<>>
  /\ checkDangerousCommand(sql)[1].level = "high"

\* the statement is held as the pipeline made it, and not executed
HeldCorrected ==
  /\ executed' = executed
  /\ pendingDangerousCommand' = <<PipelineText(Submitted)>>

\* the held statement is executed as it is held
RunsHeld ==
  /\ executed' = Append(executed, pendingDangerousCommand[1])
  /\ pendingDangerousCommand' = <<>>

\* C34, as the claim states it: the danger rules are tested on the translated
\* and corrected text.  A submitted statement that is no console command and no
\* answer, and that matches a rule of level high once translated and corrected,
\* is not executed and is held as the corrected text; and yes or y executes the
\* statement as it is held.
C34_ClassifiesCorrected ==
  [][(currentLine' = <<>> /\ idCounter' > idCounter /\ SubmitStep(ResultOK))
       => /\ (~IsBuiltin(Reply) /\ Reply \notin Answers /\ IsHigh(PipelineText(Submitted)))
               => HeldCorrected
          /\ (pendingDangerousCommand # <<>> /\ Reply \in {<<"y","e","s">>, <<"y">>})
               => RunsHeld]_vars

\* C34, amended: the same for statements submitted while aiEnabled is on.
C34_ClassifiesCorrectedWhenAIOn ==
  [][(currentLine' = <<>> /\ idCounter' > idCounter /\ SubmitStep(ResultOK))
       => /\ (aiEnabled /\ ~IsBuiltin(Reply) /\ Reply \notin Answers
                /\ IsHigh(PipelineText(Submitted)))
               => HeldCorrected
          /\ (pendingDangerousCommand # <<>> /\ Reply \in {<<"y","e","s">>, <<"y">>})
               => RunsHeld]_vars

\* DELTE FROM students; was held as DELETE FROM students; and executed so on yes
C34_Witness ==
  /\ commandHistory = <<in_yes, in_delte>>
  /\ pendingDangerousCommand = <<>>
  /\ executed = <<<<"D","E","L","E","T","E"," ","F","R","O","M"," ",
                    "s","t","u","d","e","n","t","s",";">>>>

\* C35: yes, y, no and n mean something only while a statement is pending.
\* With nothing pending, Enter on one of them does not call executeSQL and
\* leaves pendingDangerousCommand empty.
C35_AnswersOnlyWhenPending ==
  [][(pendingDangerousCommand = <<>> /\ Reply \in Answers /\ EnterStep)
       => /\ executed' = executed
          /\ pendingDangerousCommand' = <<>>]_vars

(***************************************************************************)
(* Requests in natural language: the user types a request and an          *)
(* incomplete SELECT, switches the AI and presses Enter.                   *)
(***************************************************************************)
NaturalKeys == {in_count, in_select}

NextNatural ==
  \/ \E text \in NaturalKeys : OnChange(text)
  \/ ToggleAI
  \/ Enter({ResultOK})

SpecNatural == Init /\ [][NextNatural]_vars

\* C36: a text that matches a translation rule, and is no console command, is
\* complete without a semicolon whatever the state: Enter dispatches it, with
\* lines buffered or not, the AI on or off.  With the AI off
\* it is not translated: executeSQL is called with the text as it was typed,
\* and no entry of the assistant is made.
C36_NaturalIsComplete ==
  [][(history' # history \/ buffer' # buffer)
       => ((Translatable(Submitted) /\ ~IsBuiltin(Reply)
              /\ Becomes(handleEnter(Cur, ResultOK)))
             => /\ buffer' = <<>>
                /\ currentLine' = <<>>
                /\ commandHistory' # <<>>
                /\ commandHistory'[1] = Submitted
                /\ ~aiEnabled => /\ executed' = Append(executed, Submitted)
                                 /\ NoAssistantEntry)]_vars

\* with the AI off and a line buffered, the request was executed as typed, in
\* Vietnamese
C36_Witness ==
  /\ ~aiEnabled
  /\ executed # <<>>
  /\ executed[Len(executed)] = in_select \o <<"\n">> \o in_count
  /\ buffer = <<>>

\* what is pending after the handlers that are no answer: the commands reset and
\* clear, the arrows, Ctrl+C, and the command ai off
AfterOthers ==
  {executeCommand(Cur, kw_reset, ResultOK).pendingDangerousCommand,
   executeCommand(Cur, kw_clear, ResultOK).pendingDangerousCommand,
   executeCommand(Cur, kw_ai_off, ResultOK).pendingDangerousCommand,
   handleArrowUp(Cur).pendingDangerousCommand,
   handleArrowDown(Cur).pendingDangerousCommand,
   handleCtrlC(Cur).pendingDangerousCommand}

\* C37: in every state pendingDangerousCommand is empty or a statement that
\* matches a danger rule of level high, and reset, clear, ai off, the arrows
\* and Ctrl+C would leave it as it is.  A step sets it only by submitting,
\* with aiEnabled on, a statement the pipeline classifies high, and empties it
\* only by submitting yes, y, no or n.
C37_PendingIsHigh ==
  /\ [](/\ pendingDangerousCommand # <<>> => IsHigh(pendingDangerousCommand[1])
        /\ AfterOthers = {pendingDangerousCommand})
  /\ [][pendingDangerousCommand' # pendingDangerousCommand
          => /\ SubmitStep(ResultOK)
             /\ IF pendingDangerousCommand' = <<>>
                THEN Reply \in Answers
                ELSE /\ aiEnabled
                     /\ Reply \notin Answers
                     /\ pendingDangerousCommand' = <<PipelineText(Submitted)>>]_vars

\* the corrected DELETE is pending with the AI switched off after it was held
C37_Witness ==
  /\ pendingDangerousCommand = <<PipelineText(in_delte)>>
  /\ pendingDangerousCommand # <<in_delte>>
  /\ ~aiEnabled
  /\ commandHistory = <<in_delte>>

(***************************************************************************)
(* The recall cursor: the user types an incomplete SELECT and a FROM,      *)
(* empties the line, submits with Enter and Ctrl+Enter and walks the       *)
(* recall list with the arrows.                                            *)
(***************************************************************************)
CursorKeys == {in_empty, in_select, in_from}

NextCursor ==
  \/ \E text \in CursorKeys : OnChange(text)
  \/ ArrowUp
  \/ ArrowDown
  \/ CtrlEnter({ResultOK})
  \/ Enter({ResultOK})

SpecCursor == Init /\ [][NextCursor]_vars

\* the input as it is when the user has emptied the line
Emptied == [Cur EXCEPT !.buffer = <<>>, !.currentLine = <<>>]

\* C38: in every reachable state -1 <= historyIndex <= Len(commandHistory) - 1,
\* Arrow Up at the oldest entry and Arrow Down at -1 leave historyIndex as it
\* is; every step that dispatches a statement, with Enter or with Ctrl+Enter,
\* sets historyIndex to -1, and commandHistory changes in such steps only.
C38_CursorInRange ==
  /\ [](/\ historyIndex \in -1..(Len(commandHistory) - 1)
        /\ historyIndex = Len(commandHistory) - 1
             => /\ handleArrowUp(Cur).historyIndex = historyIndex
                /\ handleArrowUp(Emptied).historyIndex = historyIndex
        /\ historyIndex = -1
             => /\ handleArrowDown(Cur).historyIndex = historyIndex
                /\ handleArrowDown(Emptied).historyIndex = historyIndex)
  /\ [][/\ SubmitStep(ResultOK) => historyIndex' = -1
        /\ commandHistory' # commandHistory => SubmitStep(ResultOK)]_vars

\* the cursor is at the oldest of two entries, by two presses of Arrow Up, with
\* the line emptied in between
C38_Witness ==
  /\ Len(commandHistory) = 2
  /\ historyIndex = 1
  /\ currentLine = commandHistory[2]
  /\ buffer = <<>>

(***************************************************************************)
(* The hint of an unfinished statement: the user clicks the quick          *)
(* examples, presses Enter, on an empty line too, or Ctrl+Enter and        *)
(* cancels with Ctrl+C.                                                    *)
(***************************************************************************)
NextHint ==
  \/ QuickExample
  \/ CtrlC
  \/ CtrlEnter({ResultOK})
  \/ Enter({ResultOK})

SpecHint == Init /\ [][NextHint]_vars

\* C39: in every reachable state isMultiLine is true exactly when the buffer
\* holds a line.
C39_HintAgreesWithBuffer == isMultiLine <=> Len(buffer) > 0

\* the buffer holds lines and nothing but white space has been typed
OnlyBlankLines == Len(buffer) > 0 /\ trim(joinLines(Append(buffer, currentLine))) = <<>>

\* C40: a press of Enter on an empty line with an empty buffer puts the empty
\* line into the buffer and sets isMultiLine, and changes nothing else: no
\* entry, nothing dispatched; while the buffer holds blank lines only, Arrow Up,
\* Arrow Down and Ctrl+Enter leave the whole state as it is.
C40_EmptyEnterBuffers ==
  /\ [][(buffer = <<>> /\ currentLine = <<>> /\ Becomes(handleEnter(Cur, ResultOK)))
          => /\ buffer' = <<<<>>>>
             /\ isMultiLine'
             /\ currentLine' = <<>>
             /\ UNCHANGED <<history, commandHistory, historyIndex, aiEnabled,
                            learningMode, pendingDangerousCommand, idCounter,
                            isReady, executed, db>>]_vars
  /\ [](OnlyBlankLines
          => /\ handleCtrlEnter(Cur, ResultOK) = Cur
             /\ handleArrowUp(Cur) = Cur
             /\ handleArrowDown(Cur) = Cur)

\* an empty line is buffered while the recall list has an entry to recall
C40_Witness ==
  /\ buffer = <<<<>>>>
  /\ currentLine = <<>>
  /\ isMultiLine
  /\ commandHistory # <<>>
  /\ historyIndex = 0

(***************************************************************************)
(* The SQL explainer (src/SQLExplainer.tsx).  A part is [type, content,    *)
(* explanation]; the explanation is a sequence of pieces as the content    *)
(* of an entry of the console is, without its pictograph.                  *)
(***************************************************************************)
\* Parse SELECT: /SELECT\s+(.*?)\s+FROM/i, if the text in capitals includes SELECT
selectPart(sqlText, explainMode) ==
  LET m == RegExec(Cat(<<Lit(<<"S","E","L","E","C","T">>), Plus(Ws), Grp(1, LazyStar(Dot)), Plus(Ws), Lit(<<"F","R","O","M">>)>>), sqlText, 1)
  IN IF includes(toUpperCase(sqlText), <<"S","E","L","E","C","T">>) /\ m.found
     THEN <<[type |-> "SELECT",
             content |-> <<"S","E","L","E","C","T"," ">> \o GroupText(sqlText, m, 1),
             explanation |-> IF explainMode = "easy"
                             THEN <<"Chọn các cột: ">> \o (IF GroupText(sqlText, m, 1) = <<"*">> THEN <<"TẤT CẢ các cột">> ELSE GroupText(sqlText, m, 1))
                             ELSE <<"SELECT clause: Specifies columns ">> \o GroupText(sqlText, m, 1) \o <<" to be returned in the result set">>]>>
     ELSE <<>>

\* Parse FROM: /FROM\s+(\w+)/i
fromPart(sqlText, explainMode) ==
  LET m == RegExec(Cat(<<Lit(<<"F","R","O","M">>), Plus(Ws), Grp(1, Plus(Wd))>>), sqlText, 1)
  IN IF m.found
     THEN <<[type |-> "FROM",
             content |-> <<"F","R","O","M"," ">> \o GroupText(sqlText, m, 1),
             explanation |-> IF explainMode = "easy"
                             THEN <<"Lấy dữ liệu từ bảng: ">> \o GroupText(sqlText, m, 1)
                             ELSE <<"FROM clause: Specifies the source table \"">> \o GroupText(sqlText, m, 1) \o <<"\" for the query">>]>>
     ELSE <<>>

\* Parse WHERE: /WHERE\s+(.+?)(?:\s+ORDER|\s+GROUP|\s+LIMIT|$)/i
wherePart(sqlText, explainMode) ==
  LET m == RegExec(Cat(<<Lit(<<"W","H","E","R","E">>), Plus(Ws), Grp(1, LazyPlus(Dot)),
                       Alt(<<Cat(<<Plus(Ws), Lit(<<"O","R","D","E","R">>)>>), Cat(<<Plus(Ws), Lit(<<"G","R","O","U","P">>)>>), Cat(<<Plus(Ws), Lit(<<"L","I","M","I","T">>)>>), Eol>>)>>), sqlText, 1)
  IN IF m.found
     THEN <<[type |-> "WHERE",
             content |-> <<"W","H","E","R","E"," ">> \o GroupText(sqlText, m, 1),
             explanation |-> IF explainMode = "easy"
                             THEN <<"Lọc với diều kiện: ">> \o GroupText(sqlText, m, 1)
                             ELSE <<"WHERE clause: Filters rows based on condition \"">> \o GroupText(sqlText, m, 1) \o <<"\"">>]>>
     ELSE <<>>

\* Parse ORDER BY: /ORDER\s+BY\s+(\w+)(?:\s+(ASC|DESC))?/i
orderPart(sqlText, explainMode) ==
  LET m == RegExec(Cat(<<Lit(<<"O","R","D","E","R">>), Plus(Ws), Lit(<<"B","Y">>), Plus(Ws), Grp(1, Plus(Wd)),
                       Opt(Cat(<<Plus(Ws), Grp(2, Alt(<<Lit(<<"A","S","C">>), Lit(<<"D","E","S","C">>)>>))>>))>>), sqlText, 1)
  IN IF m.found
     THEN <<[type |-> "ORDER BY",
             content |-> trim(<<"O","R","D","E","R"," ","B","Y"," ">> \o GroupText(sqlText, m, 1) \o <<" ">> \o GroupText(sqlText, m, 2)),
             explanation |-> IF explainMode = "easy"
                             THEN <<"Sắp xếp theo ">> \o GroupText(sqlText, m, 1) \o <<" (">>
                                  \o (IF toUpperCase(GroupText(sqlText, m, 2)) = <<"D","E","S","C">>
                                      THEN <<"giảm dần">> ELSE <<"tang dần">>) \o <<")">>
                             ELSE <<"ORDER BY clause: Sorts result by column \"">> \o GroupText(sqlText, m, 1) \o <<"\" in ">>
                                  \o (IF GroupText(sqlText, m, 2) = <<>> THEN <<"A","S","C">> ELSE GroupText(sqlText, m, 2)) \o <<" order">>]>>
     ELSE <<>>

\* Parse GROUP BY: /GROUP\s+BY\s+(\w+)/i
groupPart(sqlText, explainMode) ==
  LET m == RegExec(Cat(<<Lit(<<"G","R","O","U","P">>), Plus(Ws), Lit(<<"B","Y">>), Plus(Ws), Grp(1, Plus(Wd))>>), sqlText, 1)
  IN IF m.found
     THEN <<[type |-> "GROUP BY",
             content |-> <<"G","R","O","U","P"," ","B","Y"," ">> \o GroupText(sqlText, m, 1),
             explanation |-> IF explainMode = "easy"
                             THEN <<"Nhóm theo: ">> \o GroupText(sqlText, m, 1)
                             ELSE <<"GROUP BY clause: Groups rows by column \"">> \o GroupText(sqlText, m, 1) \o <<"\" for aggregation">>]>>
     ELSE <<>>

\* Parse JOIN: /((?:INNER|LEFT|RIGHT|FULL)?\s*JOIN)\s+(\w+)\s+ON\s+(.+?)(?:\s+WHERE|\s+ORDER|\s+GROUP|$)/i
joinPart(sqlText, explainMode) ==
  LET m == RegExec(Cat(<<Grp(1, Cat(<<Opt(Alt(<<Lit(<<"I","N","N","E","R">>), Lit(<<"L","E","F","T">>), Lit(<<"R","I","G","H","T">>), Lit(<<"F","U","L","L">>)>>)),
                                     Star(Ws), Lit(<<"J","O","I","N">>)>>)),
                       Plus(Ws), Grp(2, Plus(Wd)), Plus(Ws), Lit(<<"O","N">>), Plus(Ws), Grp(3, LazyPlus(Dot)),
                       Alt(<<Cat(<<Plus(Ws), Lit(<<"W","H","E","R","E">>)>>), Cat(<<Plus(Ws), Lit(<<"O","R","D","E","R">>)>>), Cat(<<Plus(Ws), Lit(<<"G","R","O","U","P">>)>>), Eol>>)>>), sqlText, 1)
  IN IF m.found
     THEN <<[type |-> "JOIN",
             content |-> GroupText(sqlText, m, 1) \o <<" ">> \o GroupText(sqlText, m, 2) \o <<" ","O","N"," ">> \o GroupText(sqlText, m, 3),
             explanation |-> IF explainMode = "easy"
                             THEN <<"Kết nối với bảng ">> \o GroupText(sqlText, m, 2) \o <<" dựa trên: ">> \o GroupText(sqlText, m, 3)
                             ELSE trim(GroupText(sqlText, m, 1)) \o <<" clause: Combines rows from \"">> \o GroupText(sqlText, m, 2)
                                  \o <<"\" based on condition \"">> \o GroupText(sqlText, m, 3) \o <<"\"">>]>>
     ELSE <<>>

\* Parse LIMIT: /LIMIT\s+(\d+)/i
limitPart(sqlText, explainMode) ==
  LET m == RegExec(Cat(<<Lit(<<"L","I","M","I","T">>), Plus(Ws), Grp(1, Plus(Dg))>>), sqlText, 1)
  IN IF m.found
     THEN <<[type |-> "LIMIT",
             content |-> <<"L","I","M","I","T"," ">> \o GroupText(sqlText, m, 1),
             explanation |-> IF explainMode = "easy"
                             THEN <<"Chỉ lấy ">> \o GroupText(sqlText, m, 1) \o <<" kết quả dầu tiên">>
                             ELSE <<"LIMIT clause: Restricts output to first ">> \o GroupText(sqlText, m, 1) \o <<" rows">>]>>
     ELSE <<>>

\* Parse INSERT: /INSERT\s+INTO\s+(\w+)/i
insertPart(sqlText, explainMode) ==
  LET m == RegExec(Cat(<<Lit(<<"I","N","S","E","R","T">>), Plus(Ws), Lit(<<"I","N","T","O">>), Plus(Ws), Grp(1, Plus(Wd))>>), sqlText, 1)
  IN IF m.found
     THEN <<[type |-> "INSERT",
             content |-> <<"I","N","S","E","R","T"," ","I","N","T","O"," ">> \o GroupText(sqlText, m, 1),
             explanation |-> IF explainMode = "easy"
                             THEN <<"Thêm dữ liệu mới vào bảng: ">> \o GroupText(sqlText, m, 1)
                             ELSE <<"INSERT INTO clause: Adds new row(s) to table \"">> \o GroupText(sqlText, m, 1) \o <<"\"">>]>>
     ELSE <<>>

\* Parse UPDATE: /UPDATE\s+(\w+)\s+SET\s+(.+?)(?:\s+WHERE|$)/i
updatePart(sqlText, explainMode) ==
  LET m == RegExec(Cat(<<Lit(<<"U","P","D","A","T","E">>), Plus(Ws), Grp(1, Plus(Wd)), Plus(Ws), Lit(<<"S","E","T">>), Plus(Ws),
                       Grp(2, LazyPlus(Dot)), Alt(<<Cat(<<Plus(Ws), Lit(<<"W","H","E","R","E">>)>>), Eol>>)>>), sqlText, 1)
  IN IF m.found
     THEN <<[type |-> "UPDATE",
             content |-> <<"U","P","D","A","T","E"," ">> \o GroupText(sqlText, m, 1) \o <<" ","S","E","T"," ">> \o GroupText(sqlText, m, 2),
             explanation |-> IF explainMode = "easy"
                             THEN <<"Cập nhật bảng ">> \o GroupText(sqlText, m, 1) \o <<": ">> \o GroupText(sqlText, m, 2)
                             ELSE <<"UPDATE clause: Modifies existing rows in \"">> \o GroupText(sqlText, m, 1)
                                  \o <<"\" with values \"">> \o GroupText(sqlText, m, 2) \o <<"\"">>]>>
     ELSE <<>>

\* Parse DELETE: /DELETE\s+FROM\s+(\w+)/i
deletePart(sqlText, explainMode) ==
  LET m == RegExec(Cat(<<Lit(<<"D","E","L","E","T","E">>), Plus(Ws), Lit(<<"F","R","O","M">>), Plus(Ws), Grp(1, Plus(Wd))>>), sqlText, 1)
  IN IF m.found
     THEN <<[type |-> "DELETE",
             content |-> <<"D","E","L","E","T","E"," ","F","R","O","M"," ">> \o GroupText(sqlText, m, 1),
             explanation |-> IF explainMode = "easy"
                             THEN <<"Xóa dữ liệu từ bảng: ">> \o GroupText(sqlText, m, 1)
                             ELSE <<"DELETE FROM clause: Removes rows from table \"">> \o GroupText(sqlText, m, 1) \o <<"\"">>]>>
     ELSE <<>>

recognised(sqlText, explainMode) ==
  selectPart(sqlText, explainMode) \o fromPart(sqlText, explainMode)
    \o wherePart(sqlText, explainMode) \o orderPart(sqlText, explainMode)
    \o groupPart(sqlText, explainMode) \o joinPart(sqlText, explainMode)
    \o limitPart(sqlText, explainMode) \o insertPart(sqlText, explainMode)
    \o updatePart(sqlText, explainMode) \o deletePart(sqlText, explainMode)

parseSQLParts(sqlText, explainMode) ==
  IF Len(recognised(sqlText, explainMode)) = 0
  THEN <<[type |-> "Unknown",
          content |-> sqlText,
          explanation |-> IF explainMode = "easy"
                          THEN <<"Không nhận diện dược câu lệnh. Kiểm tra lại cú pháp!">>
                          ELSE <<"Unable to parse SQL statement. Please verify syntax.">>]>>
  ELSE recognised(sqlText, explainMode)

\* Example queries
explainerExamples == <<
  <<"S","E","L","E","C","T"," ","*"," ","F","R","O","M"," ","s","t","u","d","e","n","t","s"," ","W","H","E","R","E"," ","a","g","e"," ",">"," ","1","8"," ","O","R","D","E","R"," ","B","Y"," ","n","a","m","e">>,
  <<"S","E","L","E","C","T"," ","n","a","m","e",","," ","A","V","G","(","s","a","l","a","r","y",")"," ","F","R","O","M"," ","e","m","p","l","o","y","e","e","s"," ","G","R","O","U","P"," ","B","Y"," ","d","e","p","a","r","t","m","e","n","t">>,
  <<"S","E","L","E","C","T"," ","*"," ","F","R","O","M"," ","o","r","d","e","r","s"," ","J","O","I","N"," ","p","r","o","d","u","c","t","s"," ","O","N"," ","o","r","d","e","r","s",".","p","r","o","d","u","c","t","_","i","d"," ","="," ","p","r","o","d","u","c","t","s",".","i","d">>,
  <<"U","P","D","A","T","E"," ","s","t","u","d","e","n","t","s"," ","S","E","T"," ","g","r","a","d","e"," ","="," ","'","A","'"," ","W","H","E","R","E"," ","i","d"," ","="," ","1">>,
  <<"D","E","L","E","T","E"," ","F","R","O","M"," ","s","t","u","d","e","n","t","s"," ","W","H","E","R","E"," ","a","g","e"," ","<"," ","1","6">>>>

\* the button's disabled={isAnalyzing || !sql.trim()} without the test of isAnalyzing
analyzeDisabledWhenEmpty(e) == trim(e.sql) = <<>>

\* the button's disabled={isAnalyzing || !sql.trim()}
analyzeDisabled(e) == e.isAnalyzing \/ trim(e.sql) = <<>>

\* analyzeSQL: setIsAnalyzing(true) and a timeout of 500 ms whose callback closes
\* over the sql and the mode of this render; the timeout's id is not kept
analyzeSQL(e) ==
  IF trim(e.sql) = <<>> THEN e
  ELSE [e EXCEPT !.isAnalyzing = TRUE,
                 !.timers = Append(@, [sql |-> e.sql, mode |-> e.mode])]

\* the callback of the oldest pending timeout (all have the same delay)
timeoutFires(e) ==
  [e EXCEPT !.parts = parseSQLParts(e.timers[1].sql, e.timers[1].mode),
            !.isAnalyzing = FALSE,
            !.timers = Tail(@)]

\* what the user types into the explainer's textarea
ex_blank == <<" ">>
ex_limit == <<"s","e","l","e","c","t"," ","1"," ","l","i","m","i","t"," ","5">>
ex_hello == <<"h","e","l","l","o">>
ExplainerKeys == {<<>>, ex_blank, ex_limit, ex_hello}

\* the example buttons the user clicks
ExampleKeys == {explainerExamples[1]}

console == <<buffer, currentLine, history, commandHistory, historyIndex,
             aiEnabled, learningMode, pendingDangerousCommand, isMultiLine,
             idCounter, isReady, executed, db>>

\* the textarea's onChange and the example buttons: setSQL
SetSQL ==
  /\ \E text \in ExplainerKeys \cup ExampleKeys :
       /\ text # explainer.sql
       /\ explainer' = [explainer EXCEPT !.sql = text]
  /\ UNCHANGED console

\* the parent's buttons of the explanation mode
SetMode ==
  /\ \E explainMode \in {"easy", "technical"} :
       /\ explainMode # explainer.mode
       /\ explainer' = [explainer EXCEPT !.mode = explainMode]
  /\ UNCHANGED console

\* a click on the button, which takes no click while it is disabled
Analyze ==
  /\ ~analyzeDisabled(explainer)
  /\ explainer' = analyzeSQL(explainer)
  /\ UNCHANGED console

\* 500 ms after its analyzeSQL the timeout fires
TimeoutFires ==
  /\ explainer.timers # <<>>
  /\ explainer' = timeoutFires(explainer)
  /\ UNCHANGED console

NextExplainer == SetSQL \/ SetMode \/ Analyze \/ TimeoutFires

SpecExplainer == Init /\ [][NextExplainer]_vars

====
